---- MODULE Spec2Model ----
(***************************************************************************)
(* Transaction identity and anonymization engine                           *)
(* (src/scripts/anonymize_data.py): TransactionParser's relationship       *)
(* analysis and TransactionAnonymizer's substitution caches, and the       *)
(* paginated endpoint of the transaction API                               *)
(* (src/transaction-api/app.py).                                           *)
(*                                                                         *)
(* Python str values are TLA+ strings and str concatenation is \o.  A      *)
(* Python dict is a function whose DOMAIN is the dict's key set; the       *)
(* dicts whose iteration order the code depends on are kept as a record    *)
(* [keys |-> sequence in insertion order, val |-> function].  createdAt    *)
(* timestamps are naturals ordered as the ISO-8601 strings are.            *)
(* hashlib digests are tabulated, from hashlib itself, on the strings the  *)
(* program hashes over the input domain below; all arithmetic on a digest  *)
(* (int(hex, 16) % n, // 100) is computed from its hexadecimal digits.     *)
(***************************************************************************)
EXTENDS Integers, Sequences, FiniteSets, TLC

VARIABLES
    all_transactions,       \* TransactionParser.all_transactions: the loaded envelopes
    state_transitions,      \* analysis['state_transitions'] of the last analysis
    pc,                     \* "load", then "analyzed" once the analysis has run, "done" once the
                            \* outputs are saved; "aborted" if an exception ended the run
    account_id_map,         \* [Anonymizers -> dict]: TransactionAnonymizer.account_id_map
    creditor_name_map,      \* [Anonymizers -> dict]
    reference_map,          \* [Anonymizers -> dict]
    transaction_id_map,     \* [Anonymizers -> dict]
    transaction_key_map,    \* [Anonymizers -> dict]
    anonymized_transactions,\* [Anonymizers -> Seq]: the envelopes returned so far, per run
    processed,              \* [Anonymizers -> Seq]: the envelopes handed in so far, per run
    key_log,                \* [Anonymizers -> set of <<key before, key after>>] of the records anonymized
    ret,                    \* the last call: [fn, self, arg, value, arg_after]
    ncalls,                 \* number of calls made on the anonymizers
    error,                  \* [Anonymizers -> str]: the exception the last call on (or of the run
                            \* of) self raised to its caller, "" if it returned; a run ends there
    key_calls,              \* the calls of _create_transaction_key made directly that returned:
                            \* <<[keys, val], "pending" or "booked", the key returned>>
    api_transaction_data,   \* app.py's global transaction_data: the list read from the data file
    accounts_cache,         \* app.py's global accounts_cache
    transactions_by_account,\* app.py's global transactions_by_account
    api_pc,                 \* "import" until load_transaction_data has run, then "serving"
    response                \* the last request to /accounts/<account_id>/transactions and its
                            \* answer: [account_id, args, status, json]

vars == <<all_transactions, state_transitions, pc, account_id_map, creditor_name_map,
          reference_map, transaction_id_map, transaction_key_map,
          anonymized_transactions, processed, key_log, ret, ncalls, error,
          key_calls, api_transaction_data, accounts_cache, transactions_by_account,
          api_pc, response>>

api_vars == <<api_transaction_data, accounts_cache, transactions_by_account, api_pc, response>>

parser_vars == <<all_transactions, state_transitions, pc>>

anonymizer_vars == <<account_id_map, creditor_name_map, reference_map, transaction_id_map,
                     transaction_key_map, anonymized_transactions, processed, key_log,
                     ret, ncalls, error, key_calls>>

-----------------------------------------------------------------------------
(* Bounds of the model *)

MaxEnvelopes == 3

MaxCalls == 3

\* envelopes handed to anonymize_transaction_file, by all runs together
MaxFiles == 3

\* direct calls of _create_transaction_key
MaxKeyCalls == 4

-----------------------------------------------------------------------------
(* Python dict and list helpers *)

EmptyDict == <<>>

Put(d, k, v) == (k :> v) @@ d

Has(d, k) == k \in DOMAIN d

Get(d, k, default) == IF k \in DOMAIN d THEN d[k] ELSE default

Remove(d, k) == [x \in (DOMAIN d) \ {k} |-> d[x]]

Abs(n) == IF n < 0 THEN -n ELSE n

RECURSIVE Join(_)
Join(chars) == IF chars = <<>> THEN "" ELSE Head(chars) \o Join(Tail(chars))

RECURSIVE SeqToSet(_)
SeqToSet(s) == IF s = <<>> THEN {} ELSE {Head(s)} \cup SeqToSet(Tail(s))

MD5Table(s) ==
    CASE s = "" -> <<13,4,1,13,8,12,13,9,8,15,0,0,11,2,0,4,14,9,8,0,0,9,9,8,14,12,15,8,4,2,7,14>>
      [] s = "-10.00" -> <<4,14,1,10,14,14,7,6,13,2,10,10,11,14,15,4,12,11,6,8,8,5,11,8,0,4,8,10,1,11,11,6>>
      [] s = "-10.02" -> <<0,6,15,8,8,7,1,4,12,13,14,14,3,0,0,0,6,9,13,6,15,14,13,1,0,3,9,8,0,9,8,3>>
      [] s = "-10.57" -> <<15,5,1,13,12,8,4,1,12,8,10,5,14,14,4,9,1,0,6,0,9,14,14,0,4,3,2,5,3,15,9,0>>
      [] s = "-10.87" -> <<11,11,4,8,1,0,10,6,2,11,14,11,2,14,1,2,5,11,8,15,15,7,3,4,0,5,15,10,15,12,12,2>>
      [] s = "-9.23" -> <<12,12,5,3,15,7,3,8,14,8,3,13,15,2,12,2,13,9,15,5,12,12,1,13,0,13,15,13,8,13,3,1>>
      [] s = "0.004" -> <<12,15,12,5,14,13,11,5,4,15,6,0,8,4,1,2,0,3,14,13,3,9,11,7,12,2,5,4,6,3,5,9>>
      [] s = "0.05" -> <<11,1,4,3,9,9,12,11,10,10,12,6,13,10,4,11,5,11,7,3,3,11,4,8,3,1,0,6,3,8,3,15>>
      [] s = "10.00" -> <<8,4,9,6,13,15,7,6,15,12,1,6,0,12,0,3,15,8,14,9,5,11,6,1,7,1,9,9,0,3,11,0>>
      [] s = "8.91" -> <<2,6,0,11,5,1,15,3,6,7,7,6,14,2,7,4,10,13,7,6,4,13,9,11,12,6,3,6,14,5,3,14>>
      [] s = "8.98" -> <<0,15,11,10,7,12,15,12,13,6,12,6,8,4,3,0,1,11,1,13,1,10,4,9,11,8,4,9,3,5,11,8>>
      [] s = "9.00" -> <<12,14,0,12,3,6,6,7,0,3,6,10,4,14,9,1,11,11,1,11,2,7,7,5,6,2,11,5,8,12,4,10>>
      [] s = "9.99" -> <<9,8,3,6,13,1,14,9,12,13,12,3,3,0,5,3,13,9,0,9,7,11,9,11,8,1,1,7,11,2,12,5>>
      [] s = "Acme London" -> <<7,2,3,10,13,7,12,2,6,8,11,0,9,15,7,15,7,1,3,1,9,8,6,13,4,12,9,10,12,6,0,5>>
      [] s = "BOOTS LONDON" -> <<11,1,6,12,2,9,15,4,13,15,12,7,0,6,12,10,6,13,1,15,8,1,8,6,6,7,10,4,7,13,4,9>>
      [] s = "BRISTOL CAFE" -> <<5,9,1,15,14,0,13,15,13,14,5,9,2,5,13,14,11,15,4,15,9,12,1,13,4,7,0,4,5,9,15,11>>
      [] s = "CAFE NERO" -> <<1,14,5,8,12,0,5,2,4,7,1,5,14,0,13,14,14,13,3,5,6,1,15,8,1,14,7,1,13,13,15,11>>
      [] s = "CARD 1234 5678" -> <<9,10,8,2,15,13,1,6,7,13,6,1,15,15,6,9,8,10,5,14,15,0,2,2,5,6,8,8,14,3,15,11>>
      [] s = "COSTA LONDON" -> <<15,8,6,11,15,2,3,6,4,15,4,13,11,1,0,1,13,9,0,4,1,5,14,0,7,7,3,9,1,2,7,9>>
      [] s = "GB12ABCD 5678" -> <<1,7,7,12,11,10,10,6,8,3,14,11,9,4,12,4,10,0,5,12,0,7,8,6,10,0,3,5,14,0,14,0>>
      [] s = "GB12ABCD TRANSFER" -> <<3,10,1,2,5,11,3,6,0,14,3,9,9,11,2,6,15,4,2,11,5,15,2,3,1,7,5,11,15,1,11,1>>
      [] s = "JANE DOE" -> <<13,8,5,0,13,14,0,1,10,1,0,15,7,4,14,5,8,3,4,7,13,9,5,6,13,11,2,7,2,5,1,2>>
      [] s = "LONDON LEEDS CAFE" -> <<1,15,15,2,5,4,3,3,6,13,5,4,10,3,14,9,14,2,6,3,1,10,11,1,8,7,11,6,2,15,3,15>>
      [] s = "MR J SMITH RENT" -> <<0,4,7,10,1,11,2,7,3,3,13,4,9,7,6,7,5,5,11,0,8,1,10,6,3,8,8,1,15,12,5,7>>
      [] s = "MR SMITH GB12ABCD 1234" -> <<13,5,10,10,1,6,2,15,8,15,14,1,5,1,14,4,11,15,9,0,15,13,0,4,4,14,8,5,9,7,0,4>>
      [] s = "PIZZA HUT" -> <<10,12,0,4,10,11,13,4,6,15,0,1,10,2,8,7,11,1,0,12,11,3,13,10,11,1,7,6,5,9,6,11>>
      [] s = "REF 12345678" -> <<7,5,1,2,1,7,13,6,1,8,6,1,14,15,2,6,10,13,13,13,6,6,5,8,10,14,15,14,12,11,15,7>>
      [] s = "T1a" -> <<9,7,6,13,4,14,0,11,2,11,7,13,4,9,12,14,12,1,8,3,8,0,9,14,12,0,7,0,10,7,2,3>>
      [] s = "TESCO GLASGOW" -> <<6,13,9,2,4,3,15,0,12,8,13,1,1,11,4,12,6,10,9,2,8,6,11,5,10,9,13,14,6,6,15,9>>
      [] s = "a" -> <<0,12,12,1,7,5,11,9,12,0,15,1,11,6,10,8,3,1,12,3,9,9,14,2,6,9,7,7,2,6,6,1>>
      [] s = "acc-1" -> <<15,11,15,7,14,10,5,2,9,11,7,11,7,13,10,1,3,3,13,5,0,5,1,9,2,10,13,6,14,12,1,4>>
      [] s = "acc-2" -> <<9,13,8,12,2,14,9,14,14,8,2,0,5,8,7,1,7,4,14,14,12,15,3,11,2,9,2,15,8,1,11,11>>
      [] s = "a|date:x" -> <<13,9,14,0,6,6,12,13,4,11,11,3,5,3,4,11,8,3,8,2,4,1,6,0,4,8,4,12,4,2,2,7>>
      [] s = "gb12abcd 1234" -> <<14,15,10,15,6,0,12,5,8,13,10,10,12,1,11,9,12,4,15,11,6,8,6,7,4,5,14,13,11,11,9,1>>
      [] s = "int-77" -> <<8,11,10,3,10,15,0,0,4,1,7,12,5,8,0,6,15,14,13,6,2,6,10,6,15,11,6,9,13,13,7,2>>
      [] s = "londonderry arms" -> <<11,9,11,14,1,7,15,13,4,1,0,9,4,13,14,4,9,10,10,11,10,3,8,15,2,11,3,7,1,8,5,6>>
      [] s = "mr jones 4321" -> <<15,9,13,1,14,7,12,9,14,0,10,11,10,9,12,8,0,14,3,1,4,5,8,4,2,10,1,6,0,15,9,4>>
      [] s = "rent" -> <<11,6,15,3,11,4,11,5,11,8,11,2,0,14,2,8,15,11,9,7,6,3,0,0,1,11,11,4,11,0,7,9>>
      [] s = "tx_9" -> <<13,0,5,1,14,11,7,2,4,9,5,3,15,4,4,1,10,10,4,9,4,6,3,4,5,0,9,0,8,8,0,10>>
      [] s = "{\"debtorName\": \"CHLOE THOMPSON\", \"internalTransactionId\": \"8ba3af00417c5806fed626a6fb69dd72\"}" -> <<14,5,0,3,2,11,8,9,0,7,4,12,10,5,1,10,9,15,1,2,3,9,1,7,13,14,0,5,0,5,15,9>>
      [] s = "{\"debtorName\": \"JANE DOE\", \"internalTransactionId\": \"int-77\"}" -> <<6,1,1,0,10,3,4,2,2,0,0,8,8,12,10,9,9,3,8,14,7,11,10,14,12,0,3,15,6,9,12,8>>
      [] s = "{\"internalTransactionId\": \"int-77\", \"debtorName\": \"JANE DOE\"}" -> <<0,2,5,8,4,1,2,10,7,2,12,11,11,0,7,6,14,5,1,4,3,0,2,9,11,0,15,5,10,12,8,0>>

SHA256Table(s) ==
    CASE s = "9f86d081884c7d659a2feaa0c55ad015a3bf4f1b2b0b822cd15d6c15b0f00a08" -> <<7,11,3,13,9,7,9,12,10,8,3,3,0,10,9,4,15,10,7,14,9,14,1,11,4,6,6,13,8,11,9,9,14,0,11,12,13,14,10,1,14,12,9,0,5,9,6,12,0,13,12,12,8,13,7,14,15,6,11,4,3,0,0,12>>

CharsTable(s) ==
    CASE s = "7b3d979ca8330a94fa7e9e1b466d8b99e0bcdea1ec90596c0dcc8d7ef6b4300c" -> <<"7","b","3","d","9","7","9","c","a","8","3","3","0","a","9","4","f","a","7","e","9","e","1","b","4","6","6","d","8","b","9","9","e","0","b","c","d","e","a","1","e","c","9","0","5","9","6","c","0","d","c","c","8","d","7","e","f","6","b","4","3","0","0","c">>
      [] s = "9f86d081884c7d659a2feaa0c55ad015a3bf4f1b2b0b822cd15d6c15b0f00a08" -> <<"9","f","8","6","d","0","8","1","8","8","4","c","7","d","6","5","9","a","2","f","e","a","a","0","c","5","5","a","d","0","1","5","a","3","b","f","4","f","1","b","2","b","0","b","8","2","2","c","d","1","5","d","6","c","1","5","b","0","f","0","0","a","0","8">>
      [] s = "Acme London" -> <<"A","c","m","e"," ","L","o","n","d","o","n">>
      [] s = "BIRMINGHAM" -> <<"B","I","R","M","I","N","G","H","A","M">>
      [] s = "BOOTS LONDON" -> <<"B","O","O","T","S"," ","L","O","N","D","O","N">>
      [] s = "BRISTOL" -> <<"B","R","I","S","T","O","L">>
      [] s = "BRISTOL CAFE" -> <<"B","R","I","S","T","O","L"," ","C","A","F","E">>
      [] s = "CAFE NERO" -> <<"C","A","F","E"," ","N","E","R","O">>
      [] s = "CARD 1234 5678" -> <<"C","A","R","D"," ","1","2","3","4"," ","5","6","7","8">>
      [] s = "CARD 2827 2827" -> <<"C","A","R","D"," ","2","8","2","7"," ","2","8","2","7">>
      [] s = "COSTA LONDON" -> <<"C","O","S","T","A"," ","L","O","N","D","O","N">>
      [] s = "EMMA WATSON" -> <<"E","M","M","A"," ","W","A","T","S","O","N">>
      [] s = "GB12ABCD 5678" -> <<"G","B","1","2","A","B","C","D"," ","5","6","7","8">>
      [] s = "GB12ABCD TRANSFER" -> <<"G","B","1","2","A","B","C","D"," ","T","R","A","N","S","F","E","R">>
      [] s = "GB29FAKE0123456789 5678" -> <<"G","B","2","9","F","A","K","E","0","1","2","3","4","5","6","7","8","9"," ","5","6","7","8">>
      [] s = "GB29FAKE0123456789 TRANSFER" -> <<"G","B","2","9","F","A","K","E","0","1","2","3","4","5","6","7","8","9"," ","T","R","A","N","S","F","E","R">>
      [] s = "GLASGOW" -> <<"G","L","A","S","G","O","W">>
      [] s = "JAMES MORGAN" -> <<"J","A","M","E","S"," ","M","O","R","G","A","N">>
      [] s = "LEEDS" -> <<"L","E","E","D","S">>
      [] s = "LIVERPOOL" -> <<"L","I","V","E","R","P","O","O","L">>
      [] s = "LONDON" -> <<"L","O","N","D","O","N">>
      [] s = "LONDON LEEDS CAFE" -> <<"L","O","N","D","O","N"," ","L","E","E","D","S"," ","C","A","F","E">>
      [] s = "MANCHESTER" -> <<"M","A","N","C","H","E","S","T","E","R">>
      [] s = "MR J SMITH RENT" -> <<"M","R"," ","J"," ","S","M","I","T","H"," ","R","E","N","T">>
      [] s = "MR SMITH GB12ABCD 1234" -> <<"M","R"," ","S","M","I","T","H"," ","G","B","1","2","A","B","C","D"," ","1","2","3","4">>
      [] s = "PIZZA HUT" -> <<"P","I","Z","Z","A"," ","H","U","T">>
      [] s = "REF 12345678" -> <<"R","E","F"," ","1","2","3","4","5","6","7","8">>
      [] s = "REF 36073607" -> <<"R","E","F"," ","3","6","0","7","3","6","0","7">>
      [] s = "ROBERT EDWARDS" -> <<"R","O","B","E","R","T"," ","E","D","W","A","R","D","S">>
      [] s = "T1a" -> <<"T","1","a">>
      [] s = "T976d4e0b2b7d49cec183809ec070a72" -> <<"T","9","7","6","d","4","e","0","b","2","b","7","d","4","9","c","e","c","1","8","3","8","0","9","e","c","0","7","0","a","7","2">>
      [] s = "TESCO GLASGOW" -> <<"T","E","S","C","O"," ","G","L","A","S","G","O","W">>
      [] s = "TXN0cc175b9c0f1b6a8" -> <<"T","X","N","0","c","c","1","7","5","b","9","c","0","f","1","b","6","a","8">>
      [] s = "TXN1357177" -> <<"T","X","N","1","3","5","7","1","7","7">>
      [] s = "TXNd41d8cd98f00b204" -> <<"T","X","N","d","4","1","d","8","c","d","9","8","f","0","0","b","2","0","4">>
      [] s = "TXNd9e066cd4bb3534b" -> <<"T","X","N","d","9","e","0","6","6","c","d","4","b","b","3","5","3","4","b">>
      [] s = "a" -> <<"a">>
      [] s = "a|date:x" -> <<"a","|","d","a","t","e",":","x">>
      [] s = "gb12abcd 1234" -> <<"g","b","1","2","a","b","c","d"," ","1","2","3","4">>
      [] s = "gb12abcd 3553" -> <<"g","b","1","2","a","b","c","d"," ","3","5","5","3">>
      [] s = "londonderry arms" -> <<"l","o","n","d","o","n","d","e","r","r","y"," ","a","r","m","s">>
      [] s = "mr jones 4321" -> <<"m","r"," ","j","o","n","e","s"," ","4","3","2","1">>
      [] s = "rent" -> <<"r","e","n","t">>
      [] s = "tx_9" -> <<"t","x","_","9">>
      [] s = "tx_d051eb724953f441aa49" -> <<"t","x","_","d","0","5","1","e","b","7","2","4","9","5","3","f","4","4","1","a","a","4","9">>

-----------------------------------------------------------------------------
(* hashlib digests and the arithmetic the code does on them *)

HexChars == <<"0","1","2","3","4","5","6","7","8","9","a","b","c","d","e","f">>

\* The characters digs[from..to] of a hexdigest, as a str.
HexSlice(digs, from, to) == Join([i \in 1..(to - from + 1) |-> HexChars[digs[from + i - 1] + 1]])

\* hashlib.md5(s.encode()).hexdigest(), as its sequence of hexadecimal digits
md5(s) == MD5Table(s)

\* hashlib.sha256(s.encode()).hexdigest(), as its sequence of hexadecimal digits
sha256(s) == SHA256Table(s)

\* int(hexdigest, 16) % n, for n <= 10^8: the digits are read from the most significant
\* one, four to a step, the value so far kept below n
hex_step(acc, digit, n) == (acc * 16 + digit) % n

RECURSIVE HexModFrom(_, _, _, _)
HexModFrom(digs, i, acc, n) ==
    IF i > Len(digs) THEN acc
    ELSE IF i + 3 > Len(digs)
         THEN LET next == hex_step(acc, digs[i], n)
              IN  IF next < n THEN HexModFrom(digs, i + 1, next, n) ELSE next % n
         ELSE LET next == hex_step(hex_step(hex_step(hex_step(acc, digs[i], n),
                                                     digs[i + 1], n),
                                            digs[i + 2], n),
                                   digs[i + 3], n)
              IN  IF next < n THEN HexModFrom(digs, i + 4, next, n) ELSE next % n

hash_mod(digs, n) == HexModFrom(digs, 1, 0, n)

\* (int(hexdigest, 16) // d) % n: with hexdigest = q * (d * n) + r and 0 <= r < d * n,
\* hexdigest // d = q * n + r // d and r // d < n
hash_div_mod(digs, d, n) == hash_mod(digs, d * n) \div d

\* f"{n:0{width}d}" for n >= 0
RECURSIVE ZeroPad(_, _)
ZeroPad(s, width) == IF width <= 0 THEN s ELSE ZeroPad("0" \o s, width - 1)

Digits(n) == IF n < 10 THEN 1 ELSE IF n < 100 THEN 2 ELSE IF n < 1000 THEN 3
             ELSE IF n < 10000 THEN 4 ELSE IF n < 100000 THEN 5 ELSE IF n < 1000000 THEN 6
             ELSE IF n < 10000000 THEN 7 ELSE IF n < 100000000 THEN 8 ELSE 9

FormatD(n, width) == ZeroPad(ToString(n), width - Digits(n))

-----------------------------------------------------------------------------
(* Characters of the strings the code searches in, and of the transaction   *)
(* identifiers it returns                                                   *)

Chars(s) == IF s = "" THEN <<>> ELSE CharsTable(s)

UpperCase == [c \in {"a","b","c","d","e","f","g","h","i","j","k","l","m","n","o","p","q",
                     "r","s","t","u","v","w","x","y","z"} |->
    CASE c = "a" -> "A" [] c = "b" -> "B" [] c = "c" -> "C" [] c = "d" -> "D"
      [] c = "e" -> "E" [] c = "f" -> "F" [] c = "g" -> "G" [] c = "h" -> "H"
      [] c = "i" -> "I" [] c = "j" -> "J" [] c = "k" -> "K" [] c = "l" -> "L"
      [] c = "m" -> "M" [] c = "n" -> "N" [] c = "o" -> "O" [] c = "p" -> "P"
      [] c = "q" -> "Q" [] c = "r" -> "R" [] c = "s" -> "S" [] c = "t" -> "T"
      [] c = "u" -> "U" [] c = "v" -> "V" [] c = "w" -> "W" [] c = "x" -> "X"
      [] c = "y" -> "Y" [] c = "z" -> "Z"]

\* str.upper(), character by character
upper(chars) == [i \in 1..Len(chars) |->
                    IF chars[i] \in DOMAIN UpperCase THEN UpperCase[chars[i]] ELSE chars[i]]

IsUpperLetter(c) == c \in {"A","B","C","D","E","F","G","H","I","J","K","L","M","N","O","P",
                           "Q","R","S","T","U","V","W","X","Y","Z"}

IsDigit(c) == c \in {"0","1","2","3","4","5","6","7","8","9"}

\* `needle in haystack` for str, on character sequences
Contains(haystack, needle) ==
    \E i \in 1..(Len(haystack) - Len(needle) + 1) :
        \A j \in 1..Len(needle) : haystack[i + j - 1] = needle[j]

\* A regular expression that is a sequence of character classes: "U" is [A-Z],
\* "D" is \d, "X" is [A-Z0-9].
InClass(c, cls) == CASE cls = "U" -> IsUpperLetter(c)
                     [] cls = "D" -> IsDigit(c)
                     [] cls = "X" -> IsUpperLetter(c) \/ IsDigit(c)

MatchAt(chars, i, pattern) ==
    /\ i + Len(pattern) - 1 <= Len(chars)
    /\ \A j \in 1..Len(pattern) : InClass(chars[i + j - 1], pattern[j])

\* re.search(pattern, s) is not None
re_search(pattern, chars) == \E i \in 1..Len(chars) : MatchAt(chars, i, pattern)

\* re.sub(pattern, repl, s): every non-overlapping match, leftmost first
RECURSIVE re_sub_from(_, _, _, _)
re_sub_from(pattern, repl, chars, i) ==
    IF i > Len(chars) THEN ""
    ELSE IF MatchAt(chars, i, pattern)
         THEN repl \o re_sub_from(pattern, repl, chars, i + Len(pattern))
         ELSE chars[i] \o re_sub_from(pattern, repl, chars, i + 1)

re_sub(pattern, repl, chars) == re_sub_from(pattern, repl, chars, 1)

AccountNumberPattern == <<"U","U","D","D","X","X","X","X">>

FourDigitPattern == <<"D","D","D","D">>

-----------------------------------------------------------------------------
(* TransactionAnonymizer.__init__: the fixed catalogues *)

fake_merchants == <<
    "AMAZON", "TESCO", "SAINSBURY'S", "ASDA", "MORRISONS", "WAITROSE",
    "MARKS & SPENCER", "JOHN LEWIS", "NEXT", "H&M", "ZARA", "PRIMARK",
    "STARBUCKS", "COSTA COFFEE", "MCDONALD'S", "KFC", "SUBWAY", "GREGGS",
    "SPOTIFY", "NETFLIX", "DISNEY+", "AMAZON PRIME", "APPLE", "GOOGLE",
    "VODAFONE", "EE", "O2", "THREE", "BT", "SKY", "VIRGIN MEDIA",
    "SHELL", "BP", "ESSO", "TEXACO", "SAINSBURY'S PETROL", "TESCO PETROL",
    "UBER", "DELIVEROO", "JUST EAT", "BOLT", "CITY MAPPER", "TFL",
    "BOOTS", "SUPERDRUG", "HOLLAND & BARRETT", "SPECSAVERS", "VISION EXPRESS",
    "ARGOS", "CURRYS", "SCREWFIX", "B&Q", "HOMEBASE", "IKEA",
    "PIZZA EXPRESS", "NANDOS", "WAGAMAMA", "YO! SUSHI", "LEON", "PRET A MANGER",
    "CINEMA CITY", "ODEON", "VUE CINEMAS", "GYM GROUP", "PURE GYM", "DAVID LLOYD",
    "LLOYDS BANK", "BARCLAYS", "HSBC", "NATWEST", "SANTANDER", "TSB",
    "PAYPAL", "REVOLUT", "MONZO", "STARLING BANK", "WISE", "KLARNA" >>

\* reference_patterns: "REF{:08d}" is <<"REF", 8>>
reference_patterns == <<
    <<"REF", 8>>, <<"TXN", 6>>, <<"PAY", 7>>, <<"INV", 5>>,
    <<"ORD", 6>>, <<"PMT", 8>>, <<"TRF", 7>>, <<"DD", 6>> >>

first_names == <<
    "JAMES", "JOHN", "ROBERT", "MICHAEL", "WILLIAM", "DAVID", "RICHARD", "JOSEPH",
    "THOMAS", "CHRISTOPHER", "CHARLES", "DANIEL", "MATTHEW", "ANTHONY", "MARK",
    "SARAH", "JESSICA", "JENNIFER", "ASHLEY", "EMMA", "OLIVIA", "ELIZABETH",
    "SOPHIE", "CHARLOTTE", "LUCY", "HANNAH", "GRACE", "ELLIE", "CHLOE", "EMILY" >>

surnames == <<
    "SMITH", "JONES", "TAYLOR", "WILLIAMS", "BROWN", "DAVIES", "EVANS", "WILSON",
    "THOMAS", "ROBERTS", "JOHNSON", "LEWIS", "WALKER", "ROBINSON", "THOMPSON",
    "WHITE", "WATSON", "JACKSON", "WRIGHT", "GREEN", "HARRIS", "COOPER", "KING",
    "LEE", "MARTIN", "CLARKE", "JAMES", "MORGAN", "HUGHES", "EDWARDS", "HILL" >>

\* the city tokens anonymize_creditor_name recognises, as character sequences
recognized_cities == <<
    <<"L","O","N","D","O","N">>, <<"M","A","N","C","H","E","S","T","E","R">>,
    <<"B","I","R","M","I","N","G","H","A","M">>, <<"L","E","E","D","S">>,
    <<"G","L","A","S","G","O","W">> >>

cities == <<"LONDON", "MANCHESTER", "BIRMINGHAM", "LEEDS", "GLASGOW", "BRISTOL", "LIVERPOOL">>

\* the titled-name markers anonymize_reference recognises, as character sequences
name_markers == << <<"M","R"," ">>, <<"M","R","S"," ">>, <<"M","I","S","S"," ">>,
                   <<"M","S"," ">> >>

-----------------------------------------------------------------------------
(* TransactionAnonymizer: the substitution operations.  `st` is one        *)
(* anonymizer's five cache dicts; an operation returns the caches after    *)
(* the call and the value returned.                                        *)

DefaultVariance == 10   \* variance_percent = 0.1, in hundredths

\* str(uuid.UUID(hexdigest)): 8-4-4-4-12
uuid_str(digs) == HexSlice(digs, 1, 8) \o "-" \o HexSlice(digs, 9, 12) \o "-"
                  \o HexSlice(digs, 13, 16) \o "-" \o HexSlice(digs, 17, 20) \o "-"
                  \o HexSlice(digs, 21, 32)

\* a substitution that hands out its fakes in the order the originals arrive
anonymize_account_id_by_arrival(st, original_id) ==
    LET fake_uuid == uuid_str(md5(IF DOMAIN st.account_id_map = {} THEN "" ELSE "acc-1"))
        st1 == IF ~Has(st.account_id_map, original_id)
               THEN [st EXCEPT !.account_id_map = Put(@, original_id, fake_uuid)]
               ELSE st
    IN  [st |-> st1, value |-> st1.account_id_map[original_id]]

\* a substitution that computes the fake on every call and stores nothing
anonymize_account_id_uncached(st, original_id) ==
    [st |-> st, value |-> uuid_str(md5(original_id))]

anonymize_account_id(st, original_id) ==
    LET fake_uuid == uuid_str(md5(original_id))
        st1 == IF ~Has(st.account_id_map, original_id)
               THEN [st EXCEPT !.account_id_map = Put(@, original_id, fake_uuid)]
               ELSE st
    IN  [st |-> st1, value |-> st1.account_id_map[original_id]]

\* str.startswith, on character sequences
startswith(chars, prefix) ==
    /\ Len(prefix) <= Len(chars)
    /\ \A j \in 1..Len(prefix) : chars[j] = prefix[j]

fake_transaction_id(original_id) ==
    IF startswith(Chars(original_id), <<"T">>)
    THEN "T" \o HexSlice(md5(original_id), 1, 31)
    ELSE IF startswith(Chars(original_id), <<"t", "x", "_">>)
    THEN "tx_" \o HexSlice(md5(original_id), 1, 20)
    ELSE IF Len(Chars(original_id)) > 50
    THEN HexSlice(sha256(original_id), 1, 64)
    ELSE "TXN" \o HexSlice(md5(original_id), 1, 16)

anonymize_transaction_id(st, original_id) ==
    LET st1 == IF ~Has(st.transaction_id_map, original_id)
               THEN [st EXCEPT !.transaction_id_map =
                                   Put(@, original_id, fake_transaction_id(original_id))]
               ELSE st
    IN  [st |-> st1, value |-> st1.transaction_id_map[original_id]]

\* a city test that compares the name as written, without upper()
fake_creditor_name_case_sensitive(original_name) ==
    LET hash_val == md5(original_name)
        fake_merchant == fake_merchants[hash_mod(hash_val, Len(fake_merchants)) + 1]
        has_city == \E i \in 1..Len(recognized_cities) :
                        Contains(Chars(original_name), recognized_cities[i])
    IN  IF has_city
        THEN fake_merchant \o " " \o cities[hash_mod(hash_val, Len(cities)) + 1]
        ELSE fake_merchant

fake_creditor_name(original_name) ==
    LET hash_val == md5(original_name)
        fake_merchant == fake_merchants[hash_mod(hash_val, Len(fake_merchants)) + 1]
        has_city == \E i \in 1..Len(recognized_cities) :
                        Contains(upper(Chars(original_name)), recognized_cities[i])
    IN  IF has_city
        THEN fake_merchant \o " " \o cities[hash_mod(hash_val, Len(cities)) + 1]
        ELSE fake_merchant

anonymize_creditor_name(st, original_name) ==
    IF original_name = ""
    THEN [st |-> st, value |-> original_name]
    ELSE LET st1 == IF ~Has(st.creditor_name_map, original_name)
                    THEN [st EXCEPT !.creditor_name_map =
                                        Put(@, original_name, fake_creditor_name(original_name))]
                    ELSE st
         IN  [st |-> st1, value |-> st1.creditor_name_map[original_name]]

anonymize_personal_name(original_name) ==
    IF original_name = ""
    THEN original_name
    ELSE LET hash_val == md5(original_name)
             first_name == first_names[hash_mod(hash_val, Len(first_names)) + 1]
             surname == surnames[hash_div_mod(hash_val, 100, Len(surnames)) + 1]
         IN  first_name \o " " \o surname

\* a rule order that looks for a run of four digits before an account number
fake_reference_digits_first(original_ref) ==
    LET chars == Chars(original_ref)
        ref_upper == upper(chars)
        hash_val == md5(original_ref)
    IN  IF \E i \in 1..Len(name_markers) : Contains(ref_upper, name_markers[i])
        THEN anonymize_personal_name(original_ref)
        ELSE IF re_search(FourDigitPattern, chars)
        THEN re_sub(FourDigitPattern, FormatD(hash_mod(hash_val, 10000), 4), chars)
        ELSE IF re_search(AccountNumberPattern, chars)
        THEN re_sub(AccountNumberPattern, "GB29FAKE0123456789", chars)
        ELSE LET pattern == reference_patterns[hash_mod(hash_val, Len(reference_patterns)) + 1]
             IN  pattern[1] \o FormatD(hash_mod(hash_val, 100000000), pattern[2])

fake_reference(original_ref) ==
    LET chars == Chars(original_ref)
        ref_upper == upper(chars)
        hash_val == md5(original_ref)
    IN  IF \E i \in 1..Len(name_markers) : Contains(ref_upper, name_markers[i])
        THEN anonymize_personal_name(original_ref)
        ELSE IF re_search(AccountNumberPattern, chars)
        THEN re_sub(AccountNumberPattern, "GB29FAKE0123456789", chars)
        ELSE IF re_search(FourDigitPattern, chars)
        THEN re_sub(FourDigitPattern, FormatD(hash_mod(hash_val, 10000), 4), chars)
        ELSE LET pattern == reference_patterns[hash_mod(hash_val, Len(reference_patterns)) + 1]
             IN  pattern[1] \o FormatD(hash_mod(hash_val, 100000000), pattern[2])

anonymize_reference(st, original_ref) ==
    IF original_ref = ""
    THEN [st |-> st, value |-> original_ref]
    ELSE LET st1 == IF ~Has(st.reference_map, original_ref)
                    THEN [st EXCEPT !.reference_map =
                                        Put(@, original_ref, fake_reference(original_ref))]
                    ELSE st
         IN  [st |-> st1, value |-> st1.reference_map[original_ref]]

\* float(original_amount) in thousandths, for the amount strings of the domain that
\* parse; for every other string float() raises ValueError.  The second and third
\* lines are the amounts written into a record that is passed again.
AmountMillis ==
    ("10.00" :> 10000) @@ ("0.004" :> 4) @@ ("-10.00" :> -10000) @@ ("0.05" :> 50)
    @@ ("9.99" :> 9990) @@ ("9.00" :> 9000) @@ ("8.91" :> 8910) @@ ("8.98" :> 8980)
    @@ ("-10.87" :> -10870) @@ ("-10.57" :> -10570) @@ ("-10.02" :> -10020)
    @@ ("-9.23" :> -9230)

float_parses(original_amount) == original_amount \in DOMAIN AmountMillis

\* a jitter that is not centred on zero: it leaves out the final "- variance_percent"
variance_num_unshifted(original_amount, variance_percent) ==
    variance_percent * hash_mod(md5(original_amount), 1000)

\* variance = (hash_val % 1000) / 1000.0 * variance_percent * 2 - variance_percent
\*          = variance_percent_hundredths * (hash_val % 1000 - 500) / 50000
variance_num(original_amount, variance_percent) ==
    variance_percent * (hash_mod(md5(original_amount), 1000) - 500)

\* new_amount = amount * (1 + variance), in cents, as the fraction
\* new_amount_num / new_amount_den
new_amount_num(original_amount, variance_percent) ==
    AmountMillis[original_amount] * (50000 + variance_num(original_amount, variance_percent))

new_amount_den == 500000

\* the cents f"{x:.2f}" prints for x = num/den cents: nearest, an exact tie to even
round_cents(num, den) ==
    LET q == num \div den
        r == num % den
    IN  IF 2 * r < den THEN q
        ELSE IF 2 * r > den THEN q + 1
        ELSE IF q % 2 = 0 THEN q ELSE q + 1

\* f"{new_amount:.2f}", the sign being that of new_amount
format_2f(negative, cents) ==
    (IF negative THEN "-" ELSE "") \o ToString(Abs(cents) \div 100) \o "."
        \o FormatD(Abs(cents) % 100, 2)

\* a handler that replaces an amount it cannot parse instead of returning it
anonymize_amount_zero_on_error(original_amount, variance_percent) ==
    IF float_parses(original_amount)
    THEN LET num == new_amount_num(original_amount, variance_percent)
         IN  format_2f(num < 0, round_cents(num, new_amount_den))
    ELSE "0.00"

anonymize_amount(original_amount, variance_percent) ==
    IF float_parses(original_amount)
    THEN LET num == new_amount_num(original_amount, variance_percent)
         IN  format_2f(num < 0, round_cents(num, new_amount_den))
    ELSE original_amount

\* json.dumps(transaction, sort_keys=True) of a record without identifying fields:
\* the field names it can hold, in sorted order
SortedFields == <<"additionalInformation", "debtorName", "entryReference",
                  "internalTransactionId", "remittanceInformationUnstructured">>

RECURSIVE json_items(_, _, _)
json_items(transaction, i, first) ==
    IF i > Len(SortedFields) THEN ""
    ELSE IF SortedFields[i] \in DOMAIN transaction
    THEN (IF first THEN "" ELSE ", ")
             \o "\"" \o SortedFields[i] \o "\": \"" \o transaction[SortedFields[i]] \o "\""
             \o json_items(transaction, i + 1, FALSE)
    ELSE json_items(transaction, i + 1, first)

json_dumps(transaction) == "{" \o json_items(transaction, 1, TRUE) \o "}"

\* TransactionParser._create_transaction_key and
\* TransactionAnonymizer._create_transaction_key (the same text)
_create_transaction_key(transaction) ==
    LET id_part == IF "transactionId" \in DOMAIN transaction
                   THEN <<"id:" \o transaction["transactionId"]>> ELSE <<>>
        amount_part ==
            IF "transactionAmount" \in DOMAIN transaction
            THEN <<"amount:" \o Get(transaction["transactionAmount"], "amount", "") \o ":"
                     \o Get(transaction["transactionAmount"], "currency", "")>>
            ELSE <<>>
        date_part == IF "bookingDate" \in DOMAIN transaction
                     THEN <<"date:" \o transaction["bookingDate"]>> ELSE <<>>
        creditor_part == IF "creditorName" \in DOMAIN transaction
                         THEN <<"creditor:" \o transaction["creditorName"]>> ELSE <<>>
        key_parts == id_part \o amount_part \o date_part \o creditor_part
    IN  IF key_parts = <<>>
        THEN "hash:" \o HexSlice(md5(json_dumps(transaction)), 1, 32)
        ELSE Head(key_parts) \o Join([i \in 1..(Len(key_parts) - 1) |-> "|" \o key_parts[i + 1]])


\* A dict as Python keeps it: `keys` is the insertion order of its field names and
\* `val` their values.  A transactionAmount that is a str and not a dict is written
\* [str |-> its text].
IdentifyingFields == {"transactionId", "transactionAmount", "bookingDate", "creditorName"}

is_mapping(v) == "str" \notin DOMAIN v

\* json.dumps(transaction) without sort_keys: the items in insertion order
insertion_keys(keys) == keys

\* the order sort_keys=True gives the items: the field names sorted
sorted_keys(keys) == SelectSeq(SortedFields, LAMBDA f : f \in SeqToSet(keys))

RECURSIVE json_items_in(_, _)
json_items_in(keys, val) ==
    IF keys = <<>> THEN ""
    ELSE "\"" \o Head(keys) \o "\": \"" \o val[Head(keys)] \o "\""
             \o (IF Tail(keys) = <<>> THEN "" ELSE ", " \o json_items_in(Tail(keys), val))

\* json.dumps(transaction, sort_keys=True) of a dict with its insertion order
json_dumps_sort_keys(d) == "{" \o json_items_in(sorted_keys(d.keys), d.val) \o "}"

\* transaction['transactionAmount'].get raises AttributeError on a value that is no dict
key_raises(transaction) ==
    /\ "transactionAmount" \in DOMAIN transaction
    /\ ~is_mapping(transaction["transactionAmount"])

\* _create_transaction_key called on the dict d: whether it raised, and the key returned
create_transaction_key_call(d) ==
    IF key_raises(d.val) THEN [raised |-> TRUE, value |-> ""]
    ELSE IF IdentifyingFields \cap DOMAIN d.val # {}
    THEN [raised |-> FALSE, value |-> _create_transaction_key(d.val)]
    ELSE [raised |-> FALSE,
          value |-> "hash:" \o HexSlice(md5(json_dumps_sort_keys(d)), 1, 32)]

\* key_parts of TransactionParser._create_transaction_key after lines 251-266
parser_key_parts(transaction) ==
    (IF "transactionId" \in DOMAIN transaction
     THEN <<"id:" \o transaction["transactionId"]>> ELSE <<>>)
    \o (IF "transactionAmount" \in DOMAIN transaction
        THEN <<"amount:" \o Get(transaction["transactionAmount"], "amount", "") \o ":"
                 \o Get(transaction["transactionAmount"], "currency", "")>>
        ELSE <<>>)
    \o (IF "bookingDate" \in DOMAIN transaction
        THEN <<"date:" \o transaction["bookingDate"]>> ELSE <<>>)
    \o (IF "creditorName" \in DOMAIN transaction
        THEN <<"creditor:" \o transaction["creditorName"]>> ELSE <<>>)

\* "|".join(key_parts)
RECURSIVE join_bar(_)
join_bar(key_parts) ==
    IF Len(key_parts) = 1 THEN key_parts[1]
    ELSE key_parts[1] \o "|" \o join_bar(Tail(key_parts))

\* a key function that leaves the creditor name out of the key
parser_key_without_creditor(d) ==
    IF key_raises(d.val) THEN [raised |-> TRUE, value |-> ""]
    ELSE IF parser_key_parts(Remove(d.val, "creditorName")) = <<>>
    THEN [raised |-> FALSE,
          value |-> "hash:" \o HexSlice(md5(json_dumps_sort_keys(d)), 1, 32)]
    ELSE [raised |-> FALSE, value |-> join_bar(parser_key_parts(Remove(d.val, "creditorName")))]

\* TransactionParser._create_transaction_key (lines 245-273) called on the dict d:
\* whether it raised, and the key returned
parser_create_transaction_key(d) ==
    IF key_raises(d.val) THEN [raised |-> TRUE, value |-> ""]
    ELSE IF parser_key_parts(d.val) = <<>>
    THEN [raised |-> FALSE,
          value |-> "hash:" \o HexSlice(md5(json_dumps_sort_keys(d)), 1, 32)]
    ELSE [raised |-> FALSE, value |-> join_bar(parser_key_parts(d.val))]
-----------------------------------------------------------------------------
(* anonymize_transaction and anonymize_transaction_file.  Each step takes  *)
(* and returns s = [st |-> the caches, value |-> the copy being rewritten]. *)

\* lines 474-475
with_transaction_id(s) ==
    IF "transactionId" \in DOMAIN s.value
    THEN LET r == anonymize_transaction_id(s.st, s.value["transactionId"])
         IN  [st |-> r.st, value |-> [s.value EXCEPT !["transactionId"] = r.value]]
    ELSE s

\* lines 478-479
with_creditor_name(s) ==
    IF "creditorName" \in DOMAIN s.value
    THEN LET r == anonymize_creditor_name(s.st, s.value["creditorName"])
         IN  [st |-> r.st, value |-> [s.value EXCEPT !["creditorName"] = r.value]]
    ELSE s

\* lines 482-483
with_debtor_name(s) ==
    IF "debtorName" \in DOMAIN s.value
    THEN [s EXCEPT !.value["debtorName"] = anonymize_personal_name(@)]
    ELSE s

\* lines 486-499, for each of the three reference fields
with_reference(s, field) ==
    IF field \in DOMAIN s.value
    THEN LET r == anonymize_reference(s.st, s.value[field])
         IN  [st |-> r.st, value |-> [s.value EXCEPT ![field] = r.value]]
    ELSE s

\* a rewrite of the amount that replaces the whole transactionAmount dict
with_amount_replaced(s) ==
    IF /\ "transactionAmount" \in DOMAIN s.value
       /\ "amount" \in DOMAIN s.value["transactionAmount"]
    THEN [s EXCEPT !.value["transactionAmount"] =
                       [amount |-> anonymize_amount(@["amount"], DefaultVariance)]]
    ELSE s

\* lines 502-505
with_amount(s) ==
    IF /\ "transactionAmount" \in DOMAIN s.value
       /\ "amount" \in DOMAIN s.value["transactionAmount"]
    THEN [s EXCEPT !.value["transactionAmount"]["amount"] =
                       anonymize_amount(@, DefaultVariance)]
    ELSE s

\* lines 508-511
with_internal_id(s) ==
    IF "internalTransactionId" \in DOMAIN s.value
    THEN [s EXCEPT !.value["internalTransactionId"] = HexSlice(md5(@), 1, 32)]
    ELSE s

\* the caller's record after the call: copy() is shallow (line 468), so the nested
\* transactionAmount dict of the argument is the one the copy holds
aliased(transaction, anonymized) ==
    IF "transactionAmount" \in DOMAIN transaction
    THEN [transaction EXCEPT !["transactionAmount"] = anonymized["transactionAmount"]]
    ELSE transaction

\* line 515 and the return: the entry is assigned whether or not the key is there
stored(s, transaction, original_key, anonymized_key) ==
    [st |-> [s.st EXCEPT !.transaction_key_map = Put(@, original_key, anonymized_key)],
     value |-> s.value,
     arg_after |-> aliased(transaction, s.value),
     original_key |-> original_key,
     anonymized_key |-> anonymized_key]

\* lines 471 and 514: the key of the argument as it came, and of the copy as rewritten
keyed(s, transaction) ==
    stored(s, transaction, _create_transaction_key(transaction),
           _create_transaction_key(s.value))

\* anonymize_transaction: the caches after the call, the record returned, the caller's
\* record after the call, and the two keys
anonymize_transaction(st, transaction) ==
    keyed(with_internal_id(with_amount(
              with_reference(with_reference(with_reference(
                  with_debtor_name(with_creditor_name(with_transaction_id(
                      [st |-> st, value |-> transaction]))),
                  "remittanceInformationUnstructured"),
                  "additionalInformation"),
                  "entryReference"))),
          transaction)

\* a list built by putting each new element in front
prepended(acc, r) ==
    [st |-> r.st,
     values |-> <<r.value>> \o acc.values,
     args_after |-> <<r.arg_after>> \o acc.args_after,
     keys |-> acc.keys \cup {<<r.original_key, r.anonymized_key>>}]

\* one element of the comprehension: r is what anonymize_transaction returned for it
appended(acc, r) ==
    [st |-> r.st,
     values |-> Append(acc.values, r.value),
     args_after |-> Append(acc.args_after, r.arg_after),
     keys |-> acc.keys \cup {<<r.original_key, r.anonymized_key>>}]

\* [self.anonymize_transaction(tx) for tx in txs], from left to right; acc holds the
\* caches, the list built so far, the caller's records and the pairs of keys
RECURSIVE anonymize_list(_, _)
anonymize_list(acc, txs) ==
    IF txs = <<>> THEN acc
    ELSE anonymize_list(appended(acc, anonymize_transaction(acc.st, Head(txs))), Tail(txs))

\* lines 553-566: f = [st, raised, value, arg_after, keys]; metadata is copied, the
\* account id substituted, requisitionId and traceId replaced where present.
\* raised: metadata['accountId'] raised KeyError.
with_metadata(f, requisition_uuid, trace_uuid) ==
    IF "metadata" \notin DOMAIN f.value THEN f
    ELSE IF "accountId" \notin DOMAIN f.value["metadata"] THEN [f EXCEPT !.raised = TRUE]
    ELSE LET metadata == f.value["metadata"]
             r == anonymize_account_id(f.st, metadata["accountId"])
             replaced == [k \in DOMAIN metadata |->
                              IF k = "accountId" THEN r.value
                              ELSE IF k = "requisitionId" THEN requisition_uuid
                              ELSE IF k = "traceId" THEN trace_uuid
                              ELSE metadata[k]]
         IN  [f EXCEPT !.st = r.st, !.value["metadata"] = replaced]

\* lines 573-582, for "pending" and then "booked": the list r.values replaces the
\* one in the copy of the payload; the caller's records are the ones
\* anonymize_transaction was given
listed(f, state, r) ==
    [st |-> r.st, raised |-> FALSE,
     value |-> [f.value EXCEPT !["payload"][state] = r.values],
     arg_after |-> [f.arg_after EXCEPT !["payload"][state] = r.args_after],
     keys |-> f.keys \cup r.keys]

with_list(f, state) ==
    IF f.raised \/ "payload" \notin DOMAIN f.value
                \/ state \notin DOMAIN f.value["payload"]
    THEN f
    ELSE listed(f, state,
                anonymize_list([st |-> f.st, values |-> <<>>, args_after |-> <<>>,
                                keys |-> {}],
                               f.value["payload"][state]))

\* anonymize_transaction_file; requisition_uuid and trace_uuid are what the two
\* uuid.uuid4() calls return
anonymize_transaction_file(st, transaction_data, requisition_uuid, trace_uuid) ==
    with_list(with_list(with_metadata([st |-> st, raised |-> FALSE,
                                       value |-> transaction_data,
                                       arg_after |-> transaction_data, keys |-> {}],
                                      requisition_uuid, trace_uuid),
                        "pending"),
              "booked")
-----------------------------------------------------------------------------
(* TransactionParser._analyze_transaction_relationships *)

\* A dict whose iteration order matters: keys in insertion order, and the values.
EmptyOrdered == [keys |-> <<>>, val |-> EmptyDict]

\* d.setdefault(k, []).append(item)
AppendTo(d, k, item) ==
    IF Has(d.val, k)
    THEN [d EXCEPT !.val = Put(@, k, Append(d.val[k], item))]
    ELSE [keys |-> Append(d.keys, k), val |-> Put(d.val, k, <<item>>)]

\* a grouping that keeps only the account met first
first_account_only(envelopes) ==
    IF envelopes = <<>> THEN <<>> ELSE <<envelopes[1]["metadata"]["accountId"]>>

\* the account ids in the order transactions_by_account first meets them
RECURSIVE account_order(_)
account_order(envelopes) ==
    IF envelopes = <<>> THEN <<>>
    ELSE LET rest == account_order(SubSeq(envelopes, 1, Len(envelopes) - 1))
             account_id == envelopes[Len(envelopes)]["metadata"]["accountId"]
         IN  IF account_id \in SeqToSet(rest) THEN rest ELSE Append(rest, account_id)

\* list.sort(key=createdAt): stable
RECURSIVE insert_sorted(_, _)
insert_sorted(sorted, e) ==
    IF sorted = <<>> THEN <<e>>
    ELSE IF sorted[Len(sorted)]["metadata"]["createdAt"] <= e["metadata"]["createdAt"]
    THEN Append(sorted, e)
    ELSE Append(insert_sorted(SubSeq(sorted, 1, Len(sorted) - 1), e), sorted[Len(sorted)])

\* the envelopes left in the order they were loaded
load_order(envelopes) == envelopes

RECURSIVE sort_by_createdAt(_)
sort_by_createdAt(envelopes) ==
    IF envelopes = <<>> THEN <<>>
    ELSE insert_sorted(sort_by_createdAt(SubSeq(envelopes, 1, Len(envelopes) - 1)),
                       envelopes[Len(envelopes)])

\* a grouping that puts every envelope under every account
all_account_transactions(envelopes, account_id) == sort_by_createdAt(envelopes)

account_transactions(envelopes, account_id) ==
    sort_by_createdAt(SelectSeq(envelopes, LAMBDA e : e["metadata"]["accountId"] = account_id))

\* one envelope's records of one state, appended to the sightings collected so far
RECURSIVE collect_records(_, _, _)
collect_records(d, txs, timestamp) ==
    IF txs = <<>> THEN d
    ELSE collect_records(
             AppendTo(d, _create_transaction_key(Head(txs)),
                      [transaction |-> Head(txs), timestamp |-> timestamp,
                       file_info |-> EmptyDict]),
             Tail(txs), timestamp)

\* pending_transactions / booked_transactions of one account (state is "pending" or
\* "booked")
RECURSIVE collect_sightings(_, _)
collect_sightings(envelopes, state) ==
    IF envelopes = <<>> THEN EmptyOrdered
    ELSE LET tx_data == envelopes[Len(envelopes)]
         IN  collect_records(collect_sightings(SubSeq(envelopes, 1, Len(envelopes) - 1), state),
                             Get(tx_data["payload"], state, <<>>),
                             tx_data["metadata"]["createdAt"])

\* min(sightings, key=timestamp)['timestamp']
RECURSIVE earliest(_)
earliest(sightings) ==
    IF Len(sightings) = 1 THEN sightings[1].timestamp
    ELSE LET m == earliest(Tail(sightings))
         IN  IF sightings[1].timestamp <= m THEN sightings[1].timestamp ELSE m

\* the guard with < for <=: a booking captured with the first pending sighting is missed
is_transition_strict(earliest_pending, earliest_booked) == earliest_pending < earliest_booked

\* the guard dropped: any key seen in both states is a transition
is_transition_unordered(earliest_pending, earliest_booked) == TRUE

\* the guard of line 225
is_transition(earliest_pending, earliest_booked) == earliest_pending <= earliest_booked

\* the pending -> booked entries of one account
RECURSIVE transitions_of(_, _, _, _)
transitions_of(account_id, pending_transactions, booked_transactions, i) ==
    IF i > Len(pending_transactions.keys) THEN <<>>
    ELSE LET tx_key == pending_transactions.keys[i]
             pending_list == pending_transactions.val[tx_key]
             rest == transitions_of(account_id, pending_transactions, booked_transactions, i + 1)
         IN  IF /\ Has(booked_transactions.val, tx_key)
                /\ is_transition(earliest(pending_list),
                                 earliest(booked_transactions.val[tx_key]))
             THEN << [account_id |-> account_id,
                      transaction_key |-> tx_key,
                      pending_first_seen |-> earliest(pending_list),
                      booked_first_seen |-> earliest(booked_transactions.val[tx_key]),
                      pending_count |-> Len(pending_list),
                      booked_count |-> Len(booked_transactions.val[tx_key])] >> \o rest
             ELSE rest

\* {**pending_transactions, **booked_transactions}
merged(pending_transactions, booked_transactions) ==
    [keys |-> pending_transactions.keys
                \o SelectSeq(booked_transactions.keys,
                             LAMBDA k : ~Has(pending_transactions.val, k)),
     val |-> booked_transactions.val @@ pending_transactions.val]

\* the duplicates entries of one account
RECURSIVE duplicates_of(_, _, _)
duplicates_of(account_id, all_sightings, i) ==
    IF i > Len(all_sightings.keys) THEN <<>>
    ELSE LET tx_key == all_sightings.keys[i]
             tx_list == all_sightings.val[tx_key]
             rest == duplicates_of(account_id, all_sightings, i + 1)
         IN  IF Len(tx_list) > 1
             THEN << [account_id |-> account_id,
                      transaction_key |-> tx_key,
                      occurrence_count |-> Len(tx_list),
                      timestamps |-> [j \in 1..Len(tx_list) |-> tx_list[j].timestamp]] >>
                  \o rest
             ELSE rest

RECURSIVE analyze_accounts(_, _, _)
analyze_accounts(envelopes, accounts, i) ==
    IF i > Len(accounts) THEN [pending_to_booked |-> <<>>, duplicates |-> <<>>]
    ELSE LET account_id == accounts[i]
             sorted == account_transactions(envelopes, account_id)
             pending_transactions == collect_sightings(sorted, "pending")
             booked_transactions == collect_sightings(sorted, "booked")
             rest == analyze_accounts(envelopes, accounts, i + 1)
         IN  [pending_to_booked |->
                  transitions_of(account_id, pending_transactions, booked_transactions, 1)
                      \o rest.pending_to_booked,
              duplicates |->
                  duplicates_of(account_id, merged(pending_transactions, booked_transactions), 1)
                      \o rest.duplicates]

_analyze_transaction_relationships(envelopes) ==
    analyze_accounts(envelopes, account_order(envelopes), 1)

-----------------------------------------------------------------------------
(* The input domain *)

Anonymizers == {1, 2}

AccountIds == {"acc-1", "acc-2"}

\* the identifiers handed to the substitutions directly: the empty str too
AccountIdArgs == AccountIds \cup {""}

TransactionIds == {"T1a", "tx_9", "a", "a|date:x",
                   "9f86d081884c7d659a2feaa0c55ad015a3bf4f1b2b0b822cd15d6c15b0f00a08"}

TransactionIdArgs == TransactionIds \cup {""}

CreditorNames == {"CAFE NERO", "PIZZA HUT", "Acme London", ""}

References == {"MR J SMITH RENT", "GB12ABCD TRANSFER", "CARD 1234 5678", "rent", ""}

PersonalNames == {"JANE DOE", ""}

Amounts == {"10.00", "0.004", "-10.00", "0.05", "abc", ""}

\* variance_percent, in hundredths
Variances == {0, 10, 25}

\* what uuid.uuid4() can return
Uuid4s == {"uuid4-a", "uuid4-b"}

Transactions == {
    [transactionId |-> "tx_9", transactionAmount |-> [amount |-> "10.00", currency |-> "GBP"],
     bookingDate |-> "2024-01-05", creditorName |-> "CAFE NERO",
     remittanceInformationUnstructured |-> "CARD 1234 5678"],
    [transactionId |-> "a|date:x"],
    [transactionId |-> "a", bookingDate |-> "x"],
    [transactionAmount |-> [amount |-> "-10.00", currency |-> "GBP"],
     creditorName |-> "CAFE NERO"],
    [transactionAmount |-> [amount |-> "-10.00", currency |-> "GBP"],
     creditorName |-> "PIZZA HUT"],
    [debtorName |-> "JANE DOE", internalTransactionId |-> "int-77"],
    [transactionAmount |-> [amount |-> "abc", currency |-> "GBP"], entryReference |-> "rent"],
    [transactionId |-> "T1a", transactionAmount |-> [currency |-> "GBP"],
     additionalInformation |-> "MR J SMITH RENT"] }

\* the envelopes handed to anonymize_transaction_file
Envelopes == {
    [metadata |-> [accountId |-> "acc-1", createdAt |-> 1, requisitionId |-> "req-1"],
     payload |-> [pending |-> << [transactionId |-> "tx_9",
                                  transactionAmount |-> [amount |-> "10.00", currency |-> "GBP"],
                                  creditorName |-> "CAFE NERO",
                                  remittanceInformationUnstructured |-> "CARD 1234 5678"] >>,
                  booked |-> <<>>]],
    [metadata |-> [accountId |-> "acc-1", createdAt |-> 2, traceId |-> "trace-1"],
     payload |-> [pending |-> <<>>,
                  booked |-> << [transactionId |-> "tx_9",
                                 transactionAmount |-> [amount |-> "10.00", currency |-> "GBP"],
                                 creditorName |-> "CAFE NERO",
                                 remittanceInformationUnstructured |-> "CARD 1234 5678"] >>]],
    [metadata |-> [accountId |-> "acc-2", createdAt |-> 1],
     payload |-> [pending |-> << [transactionId |-> "a", bookingDate |-> "x"] >>,
                  booked |-> << [debtorName |-> "JANE DOE", internalTransactionId |-> "int-77"],
                                [transactionId |-> "a|date:x"] >>]],
    \* a metadata header without accountId
    [metadata |-> [createdAt |-> 2],
     payload |-> [pending |-> << [transactionId |-> "a"] >>, booked |-> <<>>]],
    \* no metadata header at all
    [payload |-> [pending |-> << [transactionId |-> "a"] >>, booked |-> <<>>]] }

\* the records of the envelopes the parser loads
ParserRecords == << [transactionId |-> "tx_9"], [transactionId |-> "a", bookingDate |-> "x"] >>

ParserPayloads == {
    [pending |-> <<ParserRecords[1]>>, booked |-> <<>>],
    [pending |-> <<>>, booked |-> <<ParserRecords[1]>>],
    [pending |-> <<ParserRecords[2]>>, booked |-> <<ParserRecords[1], ParserRecords[2]>>],
    [pending |-> <<ParserRecords[1], ParserRecords[1]>>, booked |-> <<>>] }

Timestamps == {1, 2}

ParserEnvelopes ==
    { [metadata |-> [accountId |-> a, createdAt |-> t], payload |-> p] :
          a \in AccountIds, t \in Timestamps, p \in ParserPayloads }

-----------------------------------------------------------------------------
(* State and actions *)

NoReport == [pending_to_booked |-> <<>>, duplicates |-> <<>>]

NoCall == [fn |-> "none", self |-> 1, arg |-> "", value |-> "", arg_after |-> ""]

\* no request has been answered
NoRequest == [account_id |-> "", args |-> EmptyDict, status |-> 0, json |-> EmptyDict]

Init ==
    /\ all_transactions = <<>>
    /\ state_transitions = NoReport
    /\ pc = "load"
    /\ account_id_map = [self \in Anonymizers |-> EmptyDict]
    /\ creditor_name_map = [self \in Anonymizers |-> EmptyDict]
    /\ reference_map = [self \in Anonymizers |-> EmptyDict]
    /\ transaction_id_map = [self \in Anonymizers |-> EmptyDict]
    /\ transaction_key_map = [self \in Anonymizers |-> EmptyDict]
    /\ anonymized_transactions = [self \in Anonymizers |-> <<>>]
    /\ processed = [self \in Anonymizers |-> <<>>]
    /\ key_log = [self \in Anonymizers |-> {}]
    /\ ret = NoCall
    /\ ncalls = 0
    /\ error = [self \in Anonymizers |-> ""]
    /\ key_calls = {}
    /\ api_transaction_data = <<>>
    /\ accounts_cache = <<>>
    /\ transactions_by_account = EmptyDict
    /\ api_pc = "import"
    /\ response = NoRequest

\* load_transaction_data, one file: the envelope is appended
LoadEnvelope(tx_data) ==
    /\ pc = "load"
    /\ Len(all_transactions) < MaxEnvelopes
    /\ all_transactions' = Append(all_transactions, tx_data)
    /\ UNCHANGED <<state_transitions, pc>>
    /\ UNCHANGED anonymizer_vars
    /\ UNCHANGED api_vars

\* analyze_data_structure's call of _analyze_transaction_relationships on a fresh
\* analysis dict
AnalyzeTransactionRelationships ==
    /\ pc = "load"
    /\ state_transitions' = _analyze_transaction_relationships(all_transactions)
    /\ pc' = "analyzed"
    /\ UNCHANGED all_transactions
    /\ UNCHANGED anonymizer_vars
    /\ UNCHANGED api_vars

\* the five caches of one anonymizer
Caches(self) ==
    [account_id_map |-> account_id_map[self],
     creditor_name_map |-> creditor_name_map[self],
     reference_map |-> reference_map[self],
     transaction_id_map |-> transaction_id_map[self],
     transaction_key_map |-> transaction_key_map[self]]

SetCaches(self, st) ==
    /\ account_id_map' = [account_id_map EXCEPT ![self] = st.account_id_map]
    /\ creditor_name_map' = [creditor_name_map EXCEPT ![self] = st.creditor_name_map]
    /\ reference_map' = [reference_map EXCEPT ![self] = st.reference_map]
    /\ transaction_id_map' = [transaction_id_map EXCEPT ![self] = st.transaction_id_map]
    /\ transaction_key_map' = [transaction_key_map EXCEPT ![self] = st.transaction_key_map]

\* a direct call of one of the substitutions has returned r
Returned(self, fn, arg, r) ==
    /\ SetCaches(self, r.st)
    /\ ret' = [fn |-> fn, self |-> self, arg |-> arg, value |-> r.value, arg_after |-> arg]
    /\ ncalls' = ncalls + 1
    /\ UNCHANGED <<anonymized_transactions, processed, key_log, error, key_calls>>
    /\ UNCHANGED parser_vars
    /\ UNCHANGED api_vars

AnonymizeAccountId(self, original_id) ==
    /\ ncalls < MaxCalls
    /\ \E r \in {anonymize_account_id(Caches(self), original_id)} :
           Returned(self, "anonymize_account_id", original_id, r)

AnonymizeTransactionId(self, original_id) ==
    /\ ncalls < MaxCalls
    /\ \E r \in {anonymize_transaction_id(Caches(self), original_id)} :
           Returned(self, "anonymize_transaction_id", original_id, r)

AnonymizeCreditorName(self, original_name) ==
    /\ ncalls < MaxCalls
    /\ \E r \in {anonymize_creditor_name(Caches(self), original_name)} :
           Returned(self, "anonymize_creditor_name", original_name, r)

AnonymizeReference(self, original_ref) ==
    /\ ncalls < MaxCalls
    /\ \E r \in {anonymize_reference(Caches(self), original_ref)} :
           Returned(self, "anonymize_reference", original_ref, r)

AnonymizePersonalName(self, original_name) ==
    /\ ncalls < MaxCalls
    /\ \E value \in {anonymize_personal_name(original_name)} :
           Returned(self, "anonymize_personal_name", original_name,
                    [st |-> Caches(self), value |-> value])

AnonymizeAmount(self, original_amount, variance_percent) ==
    /\ ncalls < MaxCalls
    /\ \E value \in {anonymize_amount(original_amount, variance_percent)} :
           Returned(self, "anonymize_amount",
                    [original_amount |-> original_amount,
                     variance_percent |-> variance_percent],
                    [st |-> Caches(self), value |-> value])

AnonymizeTransaction(self, transaction) ==
    /\ ncalls < MaxCalls
    /\ \E r \in {anonymize_transaction(Caches(self), transaction)} :
        /\ SetCaches(self, r.st)
        /\ ret' = [fn |-> "anonymize_transaction", self |-> self, arg |-> transaction,
                   value |-> r.value, arg_after |-> r.arg_after]
        /\ key_log' = [key_log EXCEPT ![self] = @ \cup {<<r.original_key, r.anonymized_key>>}]
        /\ ncalls' = ncalls + 1
        /\ UNCHANGED <<anonymized_transactions, processed, error, key_calls>>
        /\ UNCHANGED parser_vars
        /\ UNCHANGED api_vars

\* anonymize_transaction_file called by the run that owns anonymizer `self`, as in the
\* loop of process_and_anonymize_data (lines 606-613).  Nothing catches what the call
\* raises: the exception ends the run, and the envelope is not appended.
FileAnonymized(self, transaction_data, requisition_uuid, trace_uuid) ==
    /\ Len(processed[1]) + Len(processed[2]) < MaxFiles
    /\ error[self] = ""
    /\ \E r \in {anonymize_transaction_file(Caches(self), transaction_data,
                                            requisition_uuid, trace_uuid)} :
        /\ SetCaches(self, r.st)
        /\ ret' = [fn |-> "anonymize_transaction_file", self |-> self,
                   arg |-> transaction_data,
                   value |-> IF r.raised THEN EmptyDict ELSE r.value,
                   arg_after |-> r.arg_after]
        /\ key_log' = [key_log EXCEPT ![self] = @ \cup r.keys]
        /\ anonymized_transactions' =
               [anonymized_transactions EXCEPT
                    ![self] = IF r.raised THEN @ ELSE Append(@, r.value)]
        /\ error' = [error EXCEPT ![self] = IF r.raised THEN "KeyError" ELSE @]
        /\ processed' = [processed EXCEPT ![self] = Append(@, transaction_data)]
        /\ UNCHANGED <<ncalls, key_calls>>

\* a run over envelopes of its own
AnonymizeTransactionFile(self, transaction_data, requisition_uuid, trace_uuid) ==
    /\ FileAnonymized(self, transaction_data, requisition_uuid, trace_uuid)
    /\ UNCHANGED parser_vars
    /\ UNCHANGED api_vars

\* what the loop of analyze_data_structure (lines 130-149) raises on one envelope:
\* KeyError for a missing metadata, accountId, createdAt or payload, ValueError from
\* float() in _analyze_transaction (line 291) for an amount that does not parse
RECURSIVE amounts_raise(_)
amounts_raise(txs) ==
    IF txs = <<>> THEN FALSE
    ELSE \/ /\ "transactionAmount" \in DOMAIN Head(txs)
            /\ "amount" \in DOMAIN Head(txs)["transactionAmount"]
            /\ ~float_parses(Head(txs)["transactionAmount"]["amount"])
         \/ amounts_raise(Tail(txs))

envelope_error(tx_data) ==
    IF \/ "metadata" \notin DOMAIN tx_data
       \/ "accountId" \notin DOMAIN tx_data["metadata"]
       \/ "createdAt" \notin DOMAIN tx_data["metadata"]
       \/ "payload" \notin DOMAIN tx_data
    THEN "KeyError"
    ELSE IF amounts_raise(Get(tx_data["payload"], "pending", <<>>)
                              \o Get(tx_data["payload"], "booked", <<>>))
    THEN "ValueError"
    ELSE ""

\* the exception of the first envelope the loop fails on, "" if it fails on none
RECURSIVE first_error(_)
first_error(envelopes) ==
    IF envelopes = <<>> THEN ""
    ELSE IF envelope_error(Head(envelopes)) # "" THEN envelope_error(Head(envelopes))
    ELSE first_error(Tail(envelopes))

\* process_and_anonymize_data, line 596: analyze_data_structure on the loaded corpus.
\* An exception of its loop is caught nowhere and ends the run.
AnalyzeDataStructure ==
    /\ pc = "load"
    /\ \E e \in {first_error(all_transactions)} :
           IF e = ""
           THEN /\ state_transitions' = _analyze_transaction_relationships(all_transactions)
                /\ pc' = "analyzed"
                /\ UNCHANGED error
           ELSE /\ pc' = "aborted"
                /\ error' = [error EXCEPT ![1] = e]
                /\ UNCHANGED state_transitions
    /\ UNCHANGED <<all_transactions, account_id_map, creditor_name_map, reference_map,
                   transaction_id_map, transaction_key_map, anonymized_transactions,
                   processed, key_log, ret, ncalls, key_calls>>
    /\ UNCHANGED api_vars

\* process_and_anonymize_data, lines 606-613: the next envelope of the corpus is
\* anonymized.  clean_tx_data shares its payload with the loaded envelope, which is
\* left as the call leaves its argument.
ProcessNextEnvelope(requisition_uuid, trace_uuid) ==
    /\ pc = "analyzed"
    /\ Len(processed[1]) < Len(all_transactions)
    /\ FileAnonymized(1, all_transactions[Len(processed[1]) + 1], requisition_uuid, trace_uuid)
    /\ all_transactions' = [all_transactions EXCEPT ![Len(processed[1]) + 1] = ret'.arg_after]
    /\ UNCHANGED <<state_transitions, pc>>
    /\ UNCHANGED api_vars

\* process_and_anonymize_data, lines 615-672: the loop is over, the outputs are saved
SaveOutputs ==
    /\ pc = "analyzed"
    /\ Len(processed[1]) = Len(all_transactions)
    /\ pc' = "done"
    /\ UNCHANGED <<all_transactions, state_transitions>>
    /\ UNCHANGED anonymizer_vars
    /\ UNCHANGED api_vars

\* The relationship analyzer over a loaded corpus
NextParser ==
    \/ \E tx_data \in ParserEnvelopes : LoadEnvelope(tx_data)
    \/ AnalyzeTransactionRelationships

SpecParser == Init /\ [][NextParser]_vars

\* Calls on one anonymizer
Next ==
    \/ \E original_id \in AccountIdArgs : AnonymizeAccountId(1, original_id)
    \/ \E original_id \in TransactionIdArgs : AnonymizeTransactionId(1, original_id)
    \/ \E original_name \in CreditorNames : AnonymizeCreditorName(1, original_name)
    \/ \E original_ref \in References : AnonymizeReference(1, original_ref)
    \/ \E original_name \in PersonalNames : AnonymizePersonalName(1, original_name)
    \/ \E original_amount \in Amounts, variance_percent \in Variances :
           AnonymizeAmount(1, original_amount, variance_percent)
    \/ \E transaction \in Transactions : AnonymizeTransaction(1, transaction)

Spec == Init /\ [][Next]_vars

\* Two runs, each with its own anonymizer, over envelopes
NextRuns ==
    \E self \in Anonymizers, transaction_data \in Envelopes,
       requisition_uuid \in Uuid4s, trace_uuid \in Uuid4s :
        AnonymizeTransactionFile(self, transaction_data, requisition_uuid, trace_uuid)

SpecRuns == Init /\ [][NextRuns]_vars

\* process_and_anonymize_data: load, analyze, anonymize every envelope, save
NextProcess ==
    \/ \E tx_data \in Envelopes : LoadEnvelope(tx_data)
    \/ AnalyzeDataStructure
    \/ \E requisition_uuid \in Uuid4s, trace_uuid \in Uuid4s :
           ProcessNextEnvelope(requisition_uuid, trace_uuid)
    \/ SaveOutputs

SpecProcess == Init /\ [][NextProcess]_vars

\* The records _create_transaction_key is called on directly
KeyRecords ==
    {
      [keys |-> <<"transactionId">>,
       val |-> [transactionId |-> "tx_9"]],
      [keys |-> <<"transactionId", "remittanceInformationUnstructured">>,
       val |-> [transactionId |-> "tx_9", remittanceInformationUnstructured |-> "rent"]],
      [keys |-> <<"transactionId">>,
       val |-> [transactionId |-> "a|date:x"]],
      [keys |-> <<"transactionId", "bookingDate">>,
       val |-> [transactionId |-> "a", bookingDate |-> "x"]],
      [keys |-> <<"debtorName", "internalTransactionId">>,
       val |-> [debtorName |-> "JANE DOE", internalTransactionId |-> "int-77"]],
      [keys |-> <<"internalTransactionId", "debtorName">>,
       val |-> [internalTransactionId |-> "int-77", debtorName |-> "JANE DOE"]],
      [keys |-> <<"transactionAmount">>,
       val |-> [transactionAmount |-> [str |-> "10.00"]]],
      [keys |-> <<"transactionAmount">>,
       val |-> [transactionAmount |-> EmptyDict]],
      [keys |-> <<"transactionAmount">>,
       val |-> [transactionAmount |-> [amount |-> "10.00"]]],
      [keys |-> <<"transactionAmount">>,
       val |-> [transactionAmount |-> [amount |-> "10.00", currency |-> ""]]],
      [keys |-> <<"transactionAmount", "creditorName">>,
       val |-> [transactionAmount |-> [amount |-> "10.00", currency |-> "GBP"], creditorName |-> "CAFE NERO"]],
      [keys |-> <<"creditorName", "transactionAmount">>,
       val |-> [creditorName |-> "CAFE NERO", transactionAmount |-> [amount |-> "10.00", currency |-> "GBP"]]]
    }

\* A direct call of _create_transaction_key (the parser's and the anonymizer's are the
\* same text) on a record d that its caller took from the list `state` of a payload.
CreateTransactionKey(self, d, state) ==
    /\ ncalls < MaxKeyCalls
    /\ \E r \in {create_transaction_key_call(d)} :
        /\ ret' = [fn |-> "_create_transaction_key", self |-> self, arg |-> d,
                   value |-> r.value, arg_after |-> d]
        /\ error' = [error EXCEPT ![self] = IF r.raised THEN "AttributeError" ELSE ""]
        /\ key_calls' = IF r.raised THEN key_calls
                        ELSE key_calls \cup {<<d, state, r.value>>}
    /\ ncalls' = ncalls + 1
    /\ UNCHANGED <<account_id_map, creditor_name_map, reference_map, transaction_id_map,
                   transaction_key_map, anonymized_transactions, processed, key_log>>
    /\ UNCHANGED parser_vars
    /\ UNCHANGED api_vars

NextKeys ==
    \E d \in KeyRecords, state \in {"pending", "booked"} : CreateTransactionKey(1, d, state)

SpecKeys == Init /\ [][NextKeys]_vars

\* anonymize_transaction called again by a caller that holds the record it passed to
\* the last call: the record as that call left it is the argument
AnonymizeTransactionAgain(self) ==
    /\ ncalls < MaxCalls
    /\ ret.fn = "anonymize_transaction"
    /\ ret.self = self
    /\ \E r \in {anonymize_transaction(Caches(self), ret.arg_after)} :
        /\ SetCaches(self, r.st)
        /\ ret' = [fn |-> "anonymize_transaction", self |-> self, arg |-> ret.arg_after,
                   value |-> r.value, arg_after |-> r.arg_after]
        /\ key_log' = [key_log EXCEPT ![self] = @ \cup {<<r.original_key, r.anonymized_key>>}]
        /\ ncalls' = ncalls + 1
        /\ UNCHANGED <<anonymized_transactions, processed, error, key_calls>>
        /\ UNCHANGED parser_vars
        /\ UNCHANGED api_vars

\* One anonymizer whose caller keeps the records it passes and passes them again
NextTwice ==
    \/ \E transaction \in Transactions : AnonymizeTransaction(1, transaction)
    \/ AnonymizeTransactionAgain(1)

SpecTwice == Init /\ [][NextTwice]_vars

\* references that meet several of the guards of anonymize_reference, or none
ReferenceArgs ==
    References \cup {"MR SMITH GB12ABCD 1234", "GB12ABCD 5678", "mr jones 4321",
                     "gb12abcd 1234", "REF 12345678"}

\* One anonymizer whose anonymize_reference is called on references of every kind
NextReferences == \E original_ref \in ReferenceArgs : AnonymizeReference(1, original_ref)

SpecReferences == Init /\ [][NextReferences]_vars

\* counterparty names with and without a recognized city, in either case
CreditorArgs ==
    CreditorNames \cup {"TESCO GLASGOW", "BOOTS LONDON", "COSTA LONDON", "londonderry arms",
                        "LONDON LEEDS CAFE", "BRISTOL CAFE"}

\* One anonymizer whose anonymize_creditor_name is called on names of every kind
NextCreditors == \E original_name \in CreditorArgs : AnonymizeCreditorName(1, original_name)

SpecCreditors == Init /\ [][NextCreditors]_vars

-----------------------------------------------------------------------------
(* The transaction API (src/transaction-api/app.py) *)

\* CONFIG['default_page_size'] and CONFIG['max_page_size'], at their defaults
default_page_size == 10

max_page_size == 100

\* the integers the query strings of the requests below stand for
ParsableInts == -1 .. (max_page_size + 1)

\* int(x) of a query parameter: x is the int default when the parameter is absent and
\* the parameter's string otherwise; a string that is no decimal integer raises
\* ValueError
python_int(x) ==
    IF "int" \in DOMAIN x THEN [raised |-> FALSE, value |-> x.int]
    ELSE IF \E i \in ParsableInts : ToString(i) = x.str
         THEN [raised |-> FALSE, value |-> CHOOSE i \in ParsableInts : ToString(i) = x.str]
         ELSE [raised |-> TRUE, value |-> 0]

\* request.args.get(name, default)
args_get(args, name, default) ==
    IF name \in DOMAIN args THEN [str |-> args[name]] ELSE [int |-> default]

\* the accounts in ascending order, as sorted() orders their ids
AccountIdsAscending == <<"acc-1", "acc-2">>

sorted_accounts(account_ids) == SelectSeq(AccountIdsAscending, LAMBDA a : a \in account_ids)

\* load_transaction_data: the envelopes grouped by metadata.accountId, each group
\* sorted by metadata.createdAt
organized(data) ==
    [account_id \in {data[i]["metadata"]["accountId"] : i \in DOMAIN data} |->
         sort_by_createdAt(SelectSeq(data,
                               LAMBDA e : e["metadata"]["accountId"] = account_id))]

\* a page that starts one envelope late
page_slice_from_one(page_source, start_index, end_index) ==
    SubSeq(page_source, start_index + 2,
           IF end_index + 1 < Len(page_source) THEN end_index + 1
           ELSE Len(page_source))

\* account_transactions[start_index:end_index] of the handler, for 0 <= start_index <= end_index
page_slice(page_source, start_index, end_index) ==
    SubSeq(page_source, start_index + 1,
           IF end_index < Len(page_source) THEN end_index
           ELSE Len(page_source))

api_error(message, status_code) == [status |-> status_code, json |-> [error |-> message]]

\* the page of an account that exists, for pagination parameters that parsed
page_response(by_account, account_id, page, per_page) ==
    IF page < 1 THEN api_error("Page number must be >= 1", 400)
    ELSE IF per_page < 1 \/ per_page > max_page_size
    THEN api_error("Page size must be between 1 and " \o ToString(max_page_size), 400)
    ELSE
    LET page_source == Get(by_account, account_id, <<>>)
        total_count == Len(page_source)
        start_index == (page - 1) * per_page
        end_index == start_index + per_page
    IN  IF start_index >= total_count /\ total_count > 0
        THEN api_error("Page " \o ToString(page) \o " is beyond available data", 404)
        ELSE [status |-> 200,
              json |-> [transactions |-> page_slice(page_source, start_index, end_index),
                        pagination |-> [page |-> page,
                                        per_page |-> per_page,
                                        total_count |-> total_count,
                                        total_pages |-> (total_count + per_page - 1) \div per_page,
                                        has_next |-> end_index < total_count,
                                        has_prev |-> page > 1],
                        account_id |-> account_id]]

\* get_account_transactions under error_handler: the status and the JSON body, without
\* the body's clock reading
get_account_transactions(cache, by_account, account_id, args) ==
    IF account_id \notin SeqToSet(cache)
    THEN api_error("Account not found: " \o account_id, 404)
    ELSE LET page == python_int(args_get(args, "page", 1))
             per_page == python_int(args_get(args, "per_page", default_page_size))
         IN  IF page.raised \/ per_page.raised
             THEN api_error("Invalid pagination parameters", 400)
             ELSE page_response(by_account, account_id, page.value, per_page.value)

\* Input domains of the API
ApiPayloads == { [pending |-> <<>>, booked |-> <<>>],
                 [pending |-> <<>>, booked |-> <<[transactionId |-> "tx_9"]>>] }

ApiEnvelopes ==
    { [metadata |-> [accountId |-> a, createdAt |-> t], payload |-> p] :
          a \in AccountIds, t \in Timestamps, p \in ApiPayloads }

\* the lists a data file can hold
DataFiles == UNION { [1..n -> ApiEnvelopes] : n \in 0..MaxEnvelopes }

PageStrings == {"abc"} \cup { ToString(i) : i \in -1 .. (MaxEnvelopes + 1) }

PerPageStrings == {"x", "0", "1", "2", "3", ToString(max_page_size), ToString(max_page_size + 1)}

\* the query strings: each parameter given or left out
RequestArgs ==
    {EmptyDict}
    \cup { [k \in {"page"} |-> p] : p \in PageStrings }
    \cup { [k \in {"per_page"} |-> s] : s \in PerPageStrings }
    \cup { [k \in {"page", "per_page"} |-> IF k = "page" THEN p ELSE s] :
               p \in PageStrings, s \in PerPageStrings }

RequestAccounts == AccountIds \cup {"acc-0"}

\* load_transaction_data on import: the file is read, grouped and sorted
ApiLoadTransactionData ==
    /\ api_pc = "import"
    /\ \E data \in DataFiles :
        /\ api_transaction_data' = data
        /\ accounts_cache' =
               sorted_accounts({data[i]["metadata"]["accountId"] : i \in DOMAIN data})
        /\ transactions_by_account' = organized(data)
    /\ api_pc' = "serving"
    /\ UNCHANGED response
    /\ UNCHANGED parser_vars
    /\ UNCHANGED anonymizer_vars

\* GET /accounts/<account_id>/transactions.  The handler reads the globals and writes
\* none of them, so every answer the server can give is its answer to a first request:
\* one request is followed per loaded server.
GetAccountTransactions(account_id, args) ==
    /\ api_pc = "serving"
    /\ response = NoRequest
    /\ \E r \in {get_account_transactions(accounts_cache, transactions_by_account,
                                          account_id, args)} :
           response' = [account_id |-> account_id, args |-> args,
                        status |-> r.status, json |-> r.json]
    /\ UNCHANGED <<api_transaction_data, accounts_cache, transactions_by_account, api_pc>>
    /\ UNCHANGED parser_vars
    /\ UNCHANGED anonymizer_vars

NextApi ==
    \/ ApiLoadTransactionData
    \/ (api_pc = "serving" /\ response = NoRequest
        /\ \E account_id \in RequestAccounts, args \in RequestArgs :
               GetAccountTransactions(account_id, args))

SpecApi == Init /\ [][NextApi]_vars
-----------------------------------------------------------------------------
(* Relationship analysis: what the report must say, from the loaded corpus *)

ParserKeys == { _create_transaction_key(ParserRecords[i]) : i \in 1..Len(ParserRecords) }

\* the sightings of key k in account a in one state: <<envelope index, record index>>
SightingsOf(a, k, state) ==
    UNION { { <<n, i>> : i \in { j \in 1..Len(all_transactions[n]["payload"][state]) :
                  _create_transaction_key(all_transactions[n]["payload"][state][j]) = k } } :
            n \in { m \in 1..Len(all_transactions) :
                        all_transactions[m]["metadata"]["accountId"] = a } }

CreatedAt(sighting) == all_transactions[sighting[1]]["metadata"]["createdAt"]

FirstSeen(sightings) ==
    CHOOSE t \in { CreatedAt(s) : s \in sightings } : \A s \in sightings : t <= CreatedAt(s)

TransitionEntries(a, k) ==
    { i \in 1..Len(state_transitions.pending_to_booked) :
          /\ state_transitions.pending_to_booked[i].account_id = a
          /\ state_transitions.pending_to_booked[i].transaction_key = k }

DuplicateEntries(a, k) ==
    { i \in 1..Len(state_transitions.duplicates) :
          /\ state_transitions.duplicates[i].account_id = a
          /\ state_transitions.duplicates[i].transaction_key = k }

PendingEarlierOrEqual(a, k) ==
    /\ SightingsOf(a, k, "pending") # {}
    /\ SightingsOf(a, k, "booked") # {}
    /\ FirstSeen(SightingsOf(a, k, "pending")) <= FirstSeen(SightingsOf(a, k, "booked"))

\* C1: after the analysis, every (account, key) with a pending and a booked sighting
\* whose earliest pending createdAt is <= its earliest booked createdAt has exactly one
\* pending_to_booked entry, carrying both earliest timestamps and both sighting counts.
C1_TransitionReported ==
    pc = "analyzed" =>
        \A a \in AccountIds, k \in ParserKeys :
            PendingEarlierOrEqual(a, k) =>
                /\ Cardinality(TransitionEntries(a, k)) = 1
                /\ \A i \in TransitionEntries(a, k) :
                       LET entry == state_transitions.pending_to_booked[i]
                       IN  /\ entry.pending_first_seen = FirstSeen(SightingsOf(a, k, "pending"))
                           /\ entry.booked_first_seen = FirstSeen(SightingsOf(a, k, "booked"))
                           /\ entry.pending_count = Cardinality(SightingsOf(a, k, "pending"))
                           /\ entry.booked_count = Cardinality(SightingsOf(a, k, "booked"))

\* a corpus analyzed in which a key was seen pending twice, the later time after its
\* first booked sighting, and pending first
C1_Witness ==
    /\ pc = "analyzed"
    /\ \E a \in AccountIds, k \in ParserKeys :
           /\ PendingEarlierOrEqual(a, k)
           /\ Cardinality(SightingsOf(a, k, "pending")) >= 2
           /\ \E s \in SightingsOf(a, k, "pending") :
                  CreatedAt(s) > FirstSeen(SightingsOf(a, k, "booked"))
           /\ TransitionEntries(a, k) # {}

\* the number of sightings of key k in account a captured at createdAt t, in either state
SightingsAt(a, k, t) ==
    Cardinality({ s \in SightingsOf(a, k, "pending") : CreatedAt(s) = t })
        + Cardinality({ s \in SightingsOf(a, k, "booked") : CreatedAt(s) = t })

TotalSightings(a, k) ==
    Cardinality(SightingsOf(a, k, "pending")) + Cardinality(SightingsOf(a, k, "booked"))

\* C2: after the analysis, every (account, key) sighted more than once, pending or
\* booked, has exactly one duplicates entry whose occurrence_count is the number of
\* its sightings and whose timestamps hold the createdAt of each of them, as often as
\* it was sighted then.
C2_DuplicateReported ==
    pc = "analyzed" =>
        \A a \in AccountIds, k \in ParserKeys :
            TotalSightings(a, k) > 1 =>
                /\ Cardinality(DuplicateEntries(a, k)) = 1
                /\ \A i \in DuplicateEntries(a, k) :
                       LET entry == state_transitions.duplicates[i]
                       IN  /\ entry.occurrence_count = TotalSightings(a, k)
                           /\ \A t \in Timestamps :
                                  Cardinality({ j \in 1..Len(entry.timestamps) :
                                                    entry.timestamps[j] = t })
                                      = SightingsAt(a, k, t)

\* C3: no pending_to_booked entry for an (account, key) whose earliest booked sighting
\* is strictly earlier than its earliest pending one, and none for a key sighted in
\* only one of the two states.
C3_NoTransitionOutOfOrder ==
    pc = "analyzed" =>
        \A i \in 1..Len(state_transitions.pending_to_booked) :
            LET entry == state_transitions.pending_to_booked[i]
            IN  PendingEarlierOrEqual(entry.account_id, entry.transaction_key)

\* a corpus analyzed in which one key was booked strictly before it was first pending,
\* another was seen in one state only, and neither has an entry
C3_Witness ==
    /\ pc = "analyzed"
    /\ \E a \in AccountIds, k \in ParserKeys :
           /\ SightingsOf(a, k, "pending") # {}
           /\ SightingsOf(a, k, "booked") # {}
           /\ FirstSeen(SightingsOf(a, k, "booked")) < FirstSeen(SightingsOf(a, k, "pending"))
           /\ TransitionEntries(a, k) = {}
    /\ \E a \in AccountIds, k \in ParserKeys :
           /\ SightingsOf(a, k, "pending") # {}
           /\ SightingsOf(a, k, "booked") = {}
           /\ TransitionEntries(a, k) = {}

-----------------------------------------------------------------------------
(* Key correspondence under anonymization *)

\* C4: for any two records anonymized by one anonymizer, the identity keys are equal
\* after anonymization if and only if they were equal before.
C4_KeysEqualIffEqualBefore ==
    \A self \in Anonymizers :
        \A p \in key_log[self], q \in key_log[self] : (p[1] = q[1]) <=> (p[2] = q[2])

\* C5: transaction_key_map has an entry for the key before anonymization of every
\* record processed, and every record processed with that key came out with the key
\* the map holds.
C5_KeyMapIsFunctionOfRecords ==
    \A self \in Anonymizers :
        \A p \in key_log[self] :
            /\ Has(transaction_key_map[self], p[1])
            /\ transaction_key_map[self][p[1]] = p[2]

-----------------------------------------------------------------------------
(* The substitution caches *)

CachedSubstitutions == {"anonymize_account_id", "anonymize_transaction_id",
                        "anonymize_creditor_name", "anonymize_reference"}

\* the cache dict a substitution reads and fills, of every anonymizer
CacheOf(fn) == CASE fn = "anonymize_account_id" -> account_id_map
                 [] fn = "anonymize_transaction_id" -> transaction_id_map
                 [] fn = "anonymize_creditor_name" -> creditor_name_map
                 [] fn = "anonymize_reference" -> reference_map

CacheOfNext(fn) == CASE fn = "anonymize_account_id" -> account_id_map'
                     [] fn = "anonymize_transaction_id" -> transaction_id_map'
                     [] fn = "anonymize_creditor_name" -> creditor_name_map'
                     [] fn = "anonymize_reference" -> reference_map'

\* the step is a direct call of one of the four cached substitutions
IsCachedCall == ncalls' = ncalls + 1 /\ ret'.fn \in CachedSubstitutions

\* the cache of the substitution called, before and after the step
CacheBefore == CacheOf(ret'.fn)[ret'.self]

CacheAfter == CacheOfNext(ret'.fn)[ret'.self]

\* a call returns what the cache held for the value, or else what it stores for it,
\* and returns again what the call before it returned for the same value
ReturnsTheCachedFake ==
    /\ Has(CacheBefore, ret'.arg) => ret'.value = CacheBefore[ret'.arg]
    /\ Has(CacheAfter, ret'.arg) => ret'.value = CacheAfter[ret'.arg]
    /\ (ret.fn = ret'.fn /\ ret.self = ret'.self /\ ret.arg = ret'.arg)
           => ret'.value = ret.value

\* C6 as claimed: each of the four substitutions returns the identical fake for the
\* same original value, and its cache grows by exactly one entry on a call with a
\* value not seen before and by none on a call with a value seen before.
C6_CacheGrowsPerUnseenValue ==
    [][ IsCachedCall =>
            /\ ReturnsTheCachedFake
            /\ Cardinality(DOMAIN CacheAfter)
                   = Cardinality(DOMAIN CacheBefore)
                         + (IF Has(CacheBefore, ret'.arg) THEN 0 ELSE 1) ]_vars

\* anonymize_creditor_name and anonymize_reference hand an empty value back uncached
PassedThrough ==
    ret'.fn \in {"anonymize_creditor_name", "anonymize_reference"} /\ ret'.arg = ""

\* C6 as amended: the same, except that anonymize_creditor_name and
\* anonymize_reference return an empty original value unchanged and never cache it.
C6_CacheGrowsPerUnseenNonEmptyValue ==
    [][ IsCachedCall =>
            /\ ReturnsTheCachedFake
            /\ Cardinality(DOMAIN CacheAfter)
                   = Cardinality(DOMAIN CacheBefore)
                         + (IF Has(CacheBefore, ret'.arg) \/ PassedThrough THEN 0 ELSE 1)
            /\ PassedThrough => ret'.value = "" /\ CacheAfter = CacheBefore ]_vars

\* anonymize_account_id has returned from the third call on an anonymizer whose
\* account cache then holds two entries, the one returned among them
C6_Witness ==
    /\ ret.fn = "anonymize_account_id"
    /\ ncalls = MaxCalls
    /\ Cardinality(DOMAIN account_id_map[ret.self]) = 2
    /\ ret.value = account_id_map[ret.self][ret.arg]

\* C7: the five maps only grow: no entry is removed and no stored value changes.
C7_MapsOnlyGrow ==
    [][ \A self \in Anonymizers :
            \A m \in {<<account_id_map, account_id_map'>>,
                      <<creditor_name_map, creditor_name_map'>>,
                      <<reference_map, reference_map'>>,
                      <<transaction_id_map, transaction_id_map'>>,
                      <<transaction_key_map, transaction_key_map'>>} :
                \A k \in DOMAIN m[1][self] :
                    Has(m[2][self], k) /\ m[2][self][k] = m[1][self][k] ]_vars

\* C8: two anonymizers run over the same sequence of envelopes return identical
\* envelopes, header fields included, and hold identical caches.
C8_SameInputSameOutput ==
    processed[1] = processed[2] =>
        /\ anonymized_transactions[1] = anonymized_transactions[2]
        /\ Caches(1) = Caches(2)

-----------------------------------------------------------------------------
(* Amounts *)

\* the strings anonymize_amount returns for the parsable amounts of the domain
ReturnedAmounts ==
    { anonymize_amount(a, v) : a \in { x \in Amounts : float_parses(x) }, v \in Variances }

\* the number a returned "d.dd" string stands for, in cents
cents_of ==
    [s \in ReturnedAmounts |->
        LET c == CHOOSE c \in 0..1500 : \E negative \in BOOLEAN : format_2f(negative, c) = s
        IN  IF format_2f(TRUE, c) = s THEN -c ELSE c]

AmountCall == ret.fn = "anonymize_amount" /\ float_parses(ret.arg.original_amount)

\* original * (1 - v) and original * (1 + v), in hundred-thousandths
LowerEnd == AmountMillis[ret.arg.original_amount] * (100 - ret.arg.variance_percent)

UpperEnd == AmountMillis[ret.arg.original_amount] * (100 + ret.arg.variance_percent)

Least(a, b) == IF a <= b THEN a ELSE b

Greatest(a, b) == IF a <= b THEN b ELSE a

C10_UnparsableAmountUnchanged ==
    /\ (ret.fn = "anonymize_amount" /\ ~float_parses(ret.arg.original_amount))
           => ret.value = ret.arg.original_amount
    /\ (/\ ret.fn = "anonymize_transaction"
        /\ "transactionAmount" \in DOMAIN ret.arg
        /\ "amount" \in DOMAIN ret.arg["transactionAmount"]
        /\ ~float_parses(ret.arg["transactionAmount"]["amount"]))
           => /\ "transactionAmount" \in DOMAIN ret.value
              /\ "amount" \in DOMAIN ret.value["transactionAmount"]
              /\ ret.value["transactionAmount"]["amount"]
                     = ret.arg["transactionAmount"]["amount"]

\* anonymize_transaction has returned for a record whose amount is "abc", after
\* anonymize_amount was called on an unparsable amount itself
C10_Witness ==
    /\ ret.fn = "anonymize_transaction"
    /\ "transactionAmount" \in DOMAIN ret.arg
    /\ "amount" \in DOMAIN ret.arg["transactionAmount"]
    /\ ret.arg["transactionAmount"]["amount"] = "abc"
    /\ ret.value["transactionAmount"]["amount"] = "abc"
    /\ ncalls >= 2


-----------------------------------------------------------------------------
(* Envelopes without an account identifier *)

NoAccountId(transaction_data) ==
    \/ "metadata" \notin DOMAIN transaction_data
    \/ "accountId" \notin DOMAIN transaction_data["metadata"]

\* C12: anonymize_transaction_file raises, and returns no envelope, for every envelope
\* without an account identifier: one whose metadata lacks accountId, and one with no
\* metadata at all.
C12_MissingAccountIdRaises ==
    (ret.fn = "anonymize_transaction_file" /\ NoAccountId(ret.arg))
        => /\ error[ret.self] # ""
           /\ ret.value = EmptyDict

-----------------------------------------------------------------------------
(* Shape classes of transaction identifiers *)

\* the rules of anonymize_transaction_id (lines 368-379), taken in order
shape_class(chars) ==
    IF startswith(chars, <<"T">>) THEN "T"
    ELSE IF startswith(chars, <<"t", "x", "_">>) THEN "tx_"
    ELSE IF Len(chars) > 50 THEN "long"
    ELSE "generic"

\* C11: the fake identifier anonymize_transaction_id returns falls in the same shape
\* class as the original identifier.
C11_ShapeClassPreserved ==
    ret.fn = "anonymize_transaction_id"
        => shape_class(Chars(ret.value)) = shape_class(Chars(ret.arg))

-----------------------------------------------------------------------------
(* Corpora with malformed envelopes *)

WellFormed(tx_data) == envelope_error(tx_data) = ""

\* C13: process_and_anonymize_data is never aborted by a malformed envelope, and when
\* it ends every well-formed envelope of the corpus has been anonymized.
C13_MalformedEnvelopesSkipped ==
    /\ pc # "aborted"
    /\ error[1] = ""
    /\ pc = "done" =>
           Len(anonymized_transactions[1])
               = Cardinality({ i \in 1..Len(all_transactions) : WellFormed(all_transactions[i]) })

\* Optional field f of the dict v, as a sequence of at most one value
Opt(v, f) == IF f \in DOMAIN v THEN <<v[f]>> ELSE <<>>

\* The identifying content of a record: presence and value of transactionId,
\* transactionAmount amount and currency, bookingDate and creditorName
identifying_content(transaction) ==
    [transactionId |-> Opt(transaction, "transactionId"),
     amount        |-> IF "transactionAmount" \in DOMAIN transaction
                       THEN <<Opt(transaction["transactionAmount"], "amount")>> ELSE <<>>,
     currency      |-> IF "transactionAmount" \in DOMAIN transaction
                       THEN <<Opt(transaction["transactionAmount"], "currency")>> ELSE <<>>,
     bookingDate   |-> Opt(transaction, "bookingDate"),
     creditorName  |-> Opt(transaction, "creditorName")]

has_identifying_field(transaction) == IdentifyingFields \cap DOMAIN transaction # {}

\* C14: two records that each have an identifying field and differ in the presence or
\* value of an identifying field never get the same key from _create_transaction_key,
\* also when a value contains "|" or ":".
C14_DistinctContentDistinctKeys ==
    \A p \in key_calls, q \in key_calls :
        (/\ has_identifying_field(p[1].val)
         /\ has_identifying_field(q[1].val)
         /\ identifying_content(p[1].val) # identifying_content(q[1].val))
        => p[3] # q[3]

\* C16: _create_transaction_key returns a string key and raises nothing on every record
\* that is a mapping, whatever its transactionAmount is.
C16_KeyIsTotal ==
    ret.fn = "_create_transaction_key" => (error[ret.self] = "" /\ ret.value # "")

\* C15: records with the same identifying content (some identifying field present) get
\* the same key whatever their other fields and whichever list they sit in, and a
\* record with no identifying field gets the same hash key for every order of its fields.
C15_KeyDependsOnlyOnContent ==
    \A p \in key_calls, q \in key_calls :
        /\ (/\ has_identifying_field(p[1].val)
            /\ has_identifying_field(q[1].val)
            /\ identifying_content(p[1].val) = identifying_content(q[1].val))
           => p[3] = q[3]
        /\ (/\ ~has_identifying_field(p[1].val)
            /\ ~has_identifying_field(q[1].val)
            /\ p[1].val = q[1].val)
           => p[3] = q[3]

\* Keys were made for two records of equal identifying content that differ in another
\* field and in their list, and for two orders of a record with no identifying field.
C15_Witness ==
    /\ \E p \in key_calls, q \in key_calls :
        /\ has_identifying_field(p[1].val)
        /\ identifying_content(p[1].val) = identifying_content(q[1].val)
        /\ DOMAIN p[1].val # DOMAIN q[1].val
        /\ p[2] # q[2]
        /\ p[3] = q[3]
    /\ \E p \in key_calls, q \in key_calls :
        /\ ~has_identifying_field(p[1].val)
        /\ p[1].val = q[1].val
        /\ p[1].keys # q[1].keys
        /\ p[3] = q[3]

\* The fields anonymize_transaction rewrites; of transactionAmount only the amount
SubstitutedFields ==
    {"transactionId", "creditorName", "debtorName", "remittanceInformationUnstructured",
     "additionalInformation", "entryReference", "internalTransactionId"}

\* C17: the record anonymize_transaction returns has exactly the field names of its
\* input, and every field it does not substitute (bookingDate, the currency of
\* transactionAmount) has the input's value.
C17_FieldsPreserved ==
    ret.fn = "anonymize_transaction" =>
        /\ DOMAIN ret.value = DOMAIN ret.arg
        /\ \A f \in DOMAIN ret.arg \ (SubstitutedFields \cup {"transactionAmount"}) :
               ret.value[f] = ret.arg[f]
        /\ "transactionAmount" \in DOMAIN ret.arg =>
               /\ DOMAIN ret.value["transactionAmount"] = DOMAIN ret.arg["transactionAmount"]
               /\ \A g \in DOMAIN ret.arg["transactionAmount"] \ {"amount"} :
                      ret.value["transactionAmount"][g] = ret.arg["transactionAmount"][g]

\* A record with a booking date and a currency, and without a debtor name, came back
\* with its identifier and amount replaced.
C17_Witness ==
    /\ ret.fn = "anonymize_transaction"
    /\ {"transactionId", "bookingDate", "transactionAmount"} \subseteq DOMAIN ret.arg
    /\ "debtorName" \notin DOMAIN ret.arg
    /\ {"amount", "currency"} \subseteq DOMAIN ret.arg["transactionAmount"]
    /\ ret.value["transactionId"] # ret.arg["transactionId"]
    /\ ret.value["transactionAmount"]["amount"] # ret.arg["transactionAmount"]["amount"]

States == {"pending", "booked"}

\* C18: anonymize_transaction_file returns pending and booked lists of the lengths of
\* the input's, whose i-th record is the anonymization of the i-th input record of the
\* same list: nothing moves between the lists or is reordered, dropped or duplicated.
C18_ListsPreserved ==
    (/\ ret.fn = "anonymize_transaction_file"
     /\ error[ret.self] = ""
     /\ "payload" \in DOMAIN ret.arg)
    => /\ DOMAIN ret.value["payload"] = DOMAIN ret.arg["payload"]
       /\ \A state \in States \cap DOMAIN ret.arg["payload"] :
           /\ Len(ret.value["payload"][state]) = Len(ret.arg["payload"][state])
           /\ \A i \in 1..Len(ret.arg["payload"][state]) :
                  ret.value["payload"][state][i]
                      = anonymize_transaction(Caches(ret.self),
                                              ret.arg["payload"][state][i]).value

\* An envelope with one pending and two different booked records came back anonymized.
C18_Witness ==
    /\ ret.fn = "anonymize_transaction_file"
    /\ error[ret.self] = ""
    /\ Len(ret.arg["payload"]["pending"]) = 1
    /\ Len(ret.arg["payload"]["booked"]) = 2
    /\ ret.arg["payload"]["booked"][1] # ret.arg["payload"]["booked"][2]
    /\ ret.value["payload"]["booked"][1] # ret.value["payload"]["booked"][2]
    /\ ret.value["payload"]["pending"] # ret.arg["payload"]["pending"]

\* The caches of a TransactionAnonymizer just constructed (lines 312-316)
NewCaches ==
    [account_id_map |-> EmptyDict, creditor_name_map |-> EmptyDict,
     reference_map |-> EmptyDict, transaction_id_map |-> EmptyDict,
     transaction_key_map |-> EmptyDict]

\* The caches of one anonymizer after anonymize_transaction_file on each of the
\* envelopes in turn, its caller going on after a call that raises
RECURSIVE single_run(_, _)
single_run(st, envelopes) ==
    IF envelopes = <<>> THEN st
    ELSE LET after == anonymize_transaction_file(st, Head(envelopes), "uuid4-a", "uuid4-b").st
         IN  \* the call is over (its caches compared) before the next one starts
             IF after = st THEN single_run(st, Tail(envelopes))
             ELSE single_run(after, Tail(envelopes))

PerFieldMaps == {"account_id_map", "transaction_id_map", "creditor_name_map", "reference_map"}

\* the union of two dicts, as a set of (original, fake) pairs
pairs(d) == { <<k, d[k]>> : k \in DOMAIN d }

\* C19: two anonymizers with separate caches that process different envelopes in any
\* interleaving map every account identifier, transaction identifier, counterparty
\* name and reference they both meet to the same fake, and the union of their
\* per-field maps is the map of one anonymizer run over all the envelopes.
C19_InstancesAgree ==
    \E single \in {single_run(NewCaches, processed[1] \o processed[2])} :
        \A m \in PerFieldMaps :
            /\ \A k \in DOMAIN Caches(1)[m] \cap DOMAIN Caches(2)[m] :
                   Caches(1)[m][k] = Caches(2)[m][k]
            /\ pairs(Caches(1)[m]) \cup pairs(Caches(2)[m]) = pairs(single[m])

\* Both anonymizers have processed envelopes, not the same ones, that share an account,
\* a transaction identifier, a counterparty and a reference, and one of them has met
\* an account the other has not.
C19_Witness ==
    /\ processed[1] # <<>> /\ processed[2] # <<>>
    /\ SeqToSet(processed[1]) \cap SeqToSet(processed[2]) = {}
    /\ \A m \in PerFieldMaps : DOMAIN Caches(1)[m] \cap DOMAIN Caches(2)[m] # {}
    /\ DOMAIN account_id_map[1] # DOMAIN account_id_map[2]

\* the entries of a report that belong to one account, in their order
entries_of(report, account_id) ==
    [pending_to_booked |-> SelectSeq(report.pending_to_booked,
                                     LAMBDA e : e.account_id = account_id),
     duplicates |-> SelectSeq(report.duplicates, LAMBDA e : e.account_id = account_id)]

envelopes_of(envelopes, account_id) ==
    SelectSeq(envelopes, LAMBDA e : e["metadata"]["accountId"] = account_id)

\* C20: the transition and duplicate entries reported for an account are those the
\* analysis reports for that account's envelopes alone, whatever envelopes of other
\* accounts the corpus holds, and so no entry combines sightings of two accounts.
C20_AccountsIndependent ==
    pc = "analyzed" =>
        \A account_id \in AccountIds :
            entries_of(state_transitions, account_id)
                = _analyze_transaction_relationships(envelopes_of(all_transactions, account_id))

\* The analysis ran on a corpus in which one key is pending only in acc-1 and booked in
\* acc-2, and reported an entry for acc-1 but no transition.
C20_Witness ==
    /\ pc = "analyzed"
    /\ Has(collect_sightings(envelopes_of(all_transactions, "acc-1"), "pending").val, "id:tx_9")
    /\ ~Has(collect_sightings(envelopes_of(all_transactions, "acc-1"), "booked").val, "id:tx_9")
    /\ Has(collect_sightings(envelopes_of(all_transactions, "acc-2"), "booked").val, "id:tx_9")
    /\ state_transitions.pending_to_booked = <<>>
    /\ entries_of(state_transitions, "acc-1").duplicates # <<>>

\* C21: anonymize_transaction and anonymize_transaction_file leave their input as it
\* was: after the call every field of the record or envelope passed in, the nested
\* transactionAmount included, has the value it had before.
C21_InputUnchanged ==
    ret.fn \in {"anonymize_transaction", "anonymize_transaction_file"}
        => ret.arg_after = ret.arg

\* C22: anonymize_transaction called twice with the same record in one run returns
\* equal records both times and records the same pair of keys both times.
C22_SameRecordSameResult ==
    [][AnonymizeTransactionAgain(1) =>
           /\ ret'.value = ret.value
           /\ _create_transaction_key(ret'.arg) = _create_transaction_key(ret.arg)
           /\ _create_transaction_key(ret'.value) = _create_transaction_key(ret.value)]_vars

\* The guards of the first three rules of anonymize_reference, on a reference
titled(original_ref) ==
    \E i \in 1..Len(name_markers) : Contains(upper(Chars(original_ref)), name_markers[i])

account_shaped(original_ref) == re_search(AccountNumberPattern, Chars(original_ref))

has_four_digits(original_ref) == re_search(FourDigitPattern, Chars(original_ref))

\* the rule with the highest priority whose guard holds
first_rule(original_ref) ==
    IF titled(original_ref) THEN 1
    ELSE IF account_shaped(original_ref) THEN 2
    ELSE IF has_four_digits(original_ref) THEN 3
    ELSE 4

\* what each rule alone makes of a reference
rule_result(rule, original_ref) ==
    CASE rule = 1 -> anonymize_personal_name(original_ref)
      [] rule = 2 -> re_sub(AccountNumberPattern, "GB29FAKE0123456789", Chars(original_ref))
      [] rule = 3 -> re_sub(FourDigitPattern,
                            FormatD(hash_mod(md5(original_ref), 10000), 4),
                            Chars(original_ref))
      [] rule = 4 -> reference_patterns[hash_mod(md5(original_ref),
                                                  Len(reference_patterns)) + 1][1]
                       \o FormatD(hash_mod(md5(original_ref), 100000000),
                                  reference_patterns[hash_mod(md5(original_ref),
                                                              Len(reference_patterns)) + 1][2])

ReferenceCall == ret.fn = "anonymize_reference" /\ ret.arg # ""

\* C23: on a non-empty reference anonymize_reference applies exactly one rule, the
\* first whose guard holds in the order titled name, account number, four digits,
\* generic; a reference that meets several guards is transformed by that one only.
C23_FirstRuleOnly ==
    ReferenceCall => ret.value = rule_result(first_rule(ret.arg), ret.arg)

\* A reference with a titled name, an account number and a run of four digits came
\* back as a personal name, which neither of the two lower rules gives.
C23_Witness ==
    /\ ReferenceCall
    /\ titled(ret.arg) /\ account_shaped(ret.arg) /\ has_four_digits(ret.arg)
    /\ ret.value = rule_result(1, ret.arg)
    /\ ret.value # rule_result(2, ret.arg)
    /\ ret.value # rule_result(3, ret.arg)

\* the place of the first run of four digits
first_run(chars) == CHOOSE i \in 1..Len(chars) :
    /\ MatchAt(chars, i, FourDigitPattern)
    /\ \A j \in 1..(i - 1) : ~MatchAt(chars, j, FourDigitPattern)

\* C24: when the four-digit rule fires, only the first run of four digits is replaced,
\* by four hash-derived digits; every other character, later runs included, is as it was.
C24_OnlyFirstRunReplaced ==
    (ReferenceCall /\ first_rule(ret.arg) = 3) =>
        /\ Len(Chars(ret.value)) = Len(Chars(ret.arg))
        /\ \A i \in 1..Len(Chars(ret.arg)) :
               IF i \in first_run(Chars(ret.arg))..(first_run(Chars(ret.arg)) + 3)
               THEN IsDigit(Chars(ret.value)[i])
               ELSE Chars(ret.value)[i] = Chars(ret.arg)[i]

Merchants == SeqToSet(fake_merchants)

FakeCities == SeqToSet(cities)

\* a catalogue merchant followed by a space and a city of the fake-city list
MerchantsWithCity == { m \o " " \o c : m \in Merchants, c \in FakeCities }

\* the name contains one of the recognized cities, in any case
names_city(original_name) ==
    \E i \in 1..Len(recognized_cities) :
        Contains(upper(Chars(original_name)), recognized_cities[i])

CreditorCall == ret.fn = "anonymize_creditor_name" /\ ret.arg # ""

\* C25: for a non-empty name anonymize_creditor_name returns a catalogue merchant
\* followed by a space and a fake city exactly when the name contains, in any case,
\* one of the recognized cities, and a bare catalogue merchant otherwise.
C25_CitySuffixIffCityNamed ==
    CreditorCall =>
        IF names_city(ret.arg)
        THEN ret.value \in MerchantsWithCity /\ ret.value \notin Merchants
        ELSE ret.value \in Merchants /\ ret.value \notin MerchantsWithCity

\* A name that has its city in mixed case came back with a city appended.
C25_Witness ==
    /\ CreditorCall
    /\ names_city(ret.arg)
    /\ \A i \in 1..Len(recognized_cities) : ~Contains(Chars(ret.arg), recognized_cities[i])
    /\ ret.value \in MerchantsWithCity

\* C26: the city anonymize_creditor_name appends is never a city that occurs in the
\* original name.
C26_AppendedCityIsNotTheRealOne ==
    (CreditorCall /\ names_city(ret.arg)) =>
        \A m \in Merchants, c \in FakeCities :
            ret.value = m \o " " \o c => ~Contains(upper(Chars(ret.arg)), Chars(c))

\* C27: TransactionParser._create_transaction_key and
\* TransactionAnonymizer._create_transaction_key return the same key for every record
\* (and raise on the same records), so the keys of transaction_key_map compare with
\* the transaction_key values of the report.
C27_SameKeyFunction ==
    ret.fn = "_create_transaction_key" =>
        /\ parser_create_transaction_key(ret.arg).raised = (error[ret.self] # "")
        /\ parser_create_transaction_key(ret.arg).value = ret.value

\* The anonymizer's function has returned a key with a creditor part for the last
\* call, after a hash key for a record with no identifying field.
C27_Witness ==
    /\ ret.fn = "_create_transaction_key"
    /\ "creditorName" \in DOMAIN ret.arg.val
    /\ ret.value = "amount:10.00:GBP|creditor:CAFE NERO"
    /\ \E p \in key_calls : ~has_identifying_field(p[1].val)

non_decreasing(timestamps) ==
    \A i \in 1..(Len(timestamps) - 1) : timestamps[i] <= timestamps[i + 1]

\* C28: whatever order the envelopes of an account are loaded in, the timestamps list
\* of every duplicates entry is in non-decreasing order.
C28_TimestampsAscending ==
    pc = "analyzed" =>
        \A i \in 1..Len(state_transitions.duplicates) :
            non_decreasing(state_transitions.duplicates[i].timestamps)

\* An account's later envelope was loaded before its earlier one, and a duplicates
\* entry lists the two captures, the earlier first.
C28_Witness ==
    /\ pc = "analyzed"
    /\ \E i \in 1..Len(all_transactions), j \in 1..Len(all_transactions) :
        /\ i < j
        /\ all_transactions[i]["metadata"]["accountId"] = all_transactions[j]["metadata"]["accountId"]
        /\ all_transactions[i]["metadata"]["createdAt"] > all_transactions[j]["metadata"]["createdAt"]
    /\ \E i \in 1..Len(state_transitions.duplicates) :
        state_transitions.duplicates[i].timestamps = <<1, 2>>

\* the envelopes with those at positions i and j swapped
swapped(envelopes, i, j) ==
    [k \in 1..Len(envelopes) |->
         IF k = i THEN envelopes[j] ELSE IF k = j THEN envelopes[i] ELSE envelopes[k]]

entry_sets(report) ==
    [pending_to_booked |-> SeqToSet(report.pending_to_booked),
     duplicates |-> SeqToSet(report.duplicates)]

\* C29: the report does not depend on the order the envelopes were loaded in: the
\* analysis gives the same set of pending_to_booked entries and the same set of
\* duplicates entries for the corpus with any two of its envelopes swapped.  Every
\* corpus within the bound is analysed and every permutation is a product of swaps, so
\* the two sets are those of every permutation of the corpus.
C29_LoadOrderIrrelevant ==
    pc = "analyzed" =>
        \A i \in 1..Len(all_transactions), j \in 1..Len(all_transactions) :
            i < j =>
                entry_sets(_analyze_transaction_relationships(swapped(all_transactions, i, j)))
                    = entry_sets(state_transitions)

\* The analysis of three envelopes that are not all the same, of two accounts, reported
\* a transition and a duplicate.
C29_Witness ==
    /\ pc = "analyzed"
    /\ Len(all_transactions) = 3
    /\ all_transactions[1] # all_transactions[2]
    /\ all_transactions[1]["metadata"]["accountId"] # all_transactions[3]["metadata"]["accountId"]
    /\ all_transactions[1]["metadata"]["createdAt"] > all_transactions[2]["metadata"]["createdAt"]
    /\ state_transitions.pending_to_booked # <<>>
    /\ state_transitions.duplicates # <<>>

\* the envelopes of the account in the data file, in file order
file_envelopes(account_id) ==
    SelectSeq(api_transaction_data, LAMBDA e : e["metadata"]["accountId"] = account_id)

occurrences(e, envelopes) == Cardinality({i \in DOMAIN envelopes : envelopes[i] = e})

\* ceil(n / per_page)
pages_needed(n, per_page) ==
    CHOOSE k \in 1..n : (k - 1) * per_page < n /\ n <= k * per_page

\* the answer to page `page` of the account, per_page to a page
page_of(account_id, page, per_page) ==
    get_account_transactions(accounts_cache, transactions_by_account, account_id,
                             [k \in {"page", "per_page"} |->
                                  IF k = "page" THEN ToString(page) ELSE ToString(per_page)])

\* the transactions of pages 1 to last, one after the other
RECURSIVE pages_joined(_, _, _)
pages_joined(account_id, last, per_page) ==
    IF last = 0 THEN <<>>
    ELSE pages_joined(account_id, last - 1, per_page)
             \o page_of(account_id, last, per_page).json.transactions

\* the page sizes tried: the least, the greatest and some between
PageSizes == {n \in ParsableInts : ToString(n) \in PerPageStrings /\ 1 <= n /\ n <= max_page_size}

\* what the request that was answered asked for
requested(name, default) == python_int(args_get(response.args, name, default))

answered_with_error(status_code) ==
    /\ response.status = status_code
    /\ "transactions" \notin DOMAIN response.json

\* C30: for an account with n >= 1 envelopes and a per_page between 1 and max_page_size,
\* pages 1 to ceil(n / per_page) are all answered with 200 and hold, together, every
\* envelope of the account exactly once in ascending createdAt order, with has_next true
\* exactly on the pages before the last; a page below 1 or a per_page out of the range is
\* answered with 400 and a page beyond the last with 404, without records.  The pages
\* of a loaded server are compared before its request, the request's answer after it.
C30_PagesCoverTheAccount ==
    api_pc = "serving" =>
        /\ \A account_id \in AccountIds, per_page \in PageSizes :
               LET n == Len(file_envelopes(account_id))
               IN  (response = NoRequest /\ n >= 1) =>
                   LET total_pages == pages_needed(n, per_page)
                       all == pages_joined(account_id, total_pages, per_page)
                   IN  /\ \A page \in 1..total_pages :
                              LET r == page_of(account_id, page, per_page)
                              IN  /\ r.status = 200
                                  /\ r.json.pagination.has_next = (page < total_pages)
                       /\ Len(all) = n
                       /\ \A e \in ApiEnvelopes :
                              occurrences(e, all) = occurrences(e, file_envelopes(account_id))
                       /\ non_decreasing([i \in DOMAIN all |-> all[i]["metadata"]["createdAt"]])
        /\ (/\ response # NoRequest
            /\ Len(file_envelopes(response.account_id)) >= 1
            /\ ~requested("page", 1).raised
            /\ ~requested("per_page", default_page_size).raised)
           => LET page == requested("page", 1).value
                  per_page == requested("per_page", default_page_size).value
                  n == Len(file_envelopes(response.account_id))
              IN  IF page < 1 \/ per_page < 1 \/ per_page > max_page_size
                  THEN answered_with_error(400)
                  ELSE IF page > pages_needed(n, per_page)
                  THEN answered_with_error(404)
                  ELSE /\ response.status = 200
                       /\ response.json.pagination.has_next = (page < pages_needed(n, per_page))

\* The second of three pages of an account whose envelopes the file holds in descending
\* createdAt order was asked for and answered.
C30_Witness ==
    /\ api_pc = "serving"
    /\ Len(file_envelopes("acc-1")) = 3
    /\ file_envelopes("acc-1")[1]["metadata"]["createdAt"] > file_envelopes("acc-1")[3]["metadata"]["createdAt"]
    /\ response.account_id = "acc-1"
    /\ response.args = [k \in {"page", "per_page"} |-> IF k = "page" THEN "2" ELSE "1"]
    /\ response.status = 200
    /\ response.json.pagination.has_next
    /\ Len(response.json.transactions) = 1
====
